---- MODULE Spec2Model ----
(***************************************************************************)
(* Prefixed signed tableau solver for the modal logic K                    *)
(* (src/full_code.py: class Tableaux, is_closed, the Formula dataclasses). *)
(*                                                                         *)
(* A decision call (check_validity / check_satisfiability) is modelled as  *)
(* a step machine: solve() iterates expand(), and the recursion of         *)
(* expand_branch is unfolded into a depth-first work list, one action per  *)
(* invocation of expand_branch.                                            *)
(***************************************************************************)
EXTENDS Integers, Sequences, FiniteSets, TLC

VARIABLES
    formula,            \* self.formula
    branches,           \* self.branches (None is modelled by NoBranches)
    accessibility,      \* self.accessibility: prefix -> set of prefixes (defaultdict(set))
    new_world_created,  \* self.new_world_created
    deferred_expansions,\* self.deferred_expansions
    node_count,         \* self.node_count
    tree,               \* self.tree: node k is tree[k + 1]
    pc,                 \* position of the running call: "idle", "solve", "expand", "finish"
    method,             \* the entry point of the running call
    max_iterations,     \* argument of the running call
    iteration,          \* loop variable of solve()
    work,               \* pending invocations of expand_branch, depth first
    new_branches,       \* branches returned so far to expand()
    solver,             \* number of Tableaux instances constructed so far
    calls,              \* number of decision calls made on the current instance
    hist,               \* the decision calls that have returned, in order
    caller,             \* how the running call was made: "direct", or through
                        \* run_with_timeout ("join": waiting in thread.join,
                        \* "timed_out": run_with_timeout has returned TimeoutError)
    text,               \* the argument of custom_parse_formula / solve_formula
    parsed,             \* what custom_parse_formula(text) gave
    frames,             \* the calls of the parse functions that have not returned
    ret,                \* the value the last parse function returned
    report,             \* what solve_formula(text) returned
    solutions,          \* st.session_state.solutions
    solutions_to_remove,\* the local of main() of that name, in the last run of the script
    selected_index,     \* st.session_state.selected_index
    current_formula,    \* st.session_state.current_formula
    editing             \* st.session_state.editing

(* the state of the front end, src/app.py, and of the parser *)
app_vars == <<text, parsed, frames, ret, report, solutions, solutions_to_remove, selected_index, current_formula, editing>>

(* the state of a Tableaux object and of the decision call running on it *)
solver_vars == <<formula, branches, accessibility, new_world_created, deferred_expansions,
                 node_count, tree, pc, method, max_iterations, iteration, work,
                 new_branches, solver, calls, hist, caller>>

vars == <<solver_vars, app_vars>>

-----------------------------------------------------------------------------
(* Formula AST: the dataclasses of src/full_code.py lines 40-78.  A formula *)
(* is a pair <<tag, payload>>; dataclass equality is structural, as is      *)
(* equality of these tuples.                                                *)

Atom(name) == <<"Atom", name>>
Not(f) == <<"Not", f>>
And(conjuncts) == <<"And", conjuncts>>
Or(disjuncts) == <<"Or", disjuncts>>
Implies(left, right) == <<"Implies", <<left, right>>>>
Box(f) == <<"Box", f>>
Diamond(f) == <<"Diamond", f>>

IsAtom(f) == f[1] = "Atom"
IsNot(f) == f[1] = "Not"
IsAnd(f) == f[1] = "And"
IsOr(f) == f[1] = "Or"
IsImplies(f) == f[1] = "Implies"
IsBox(f) == f[1] = "Box"
IsDiamond(f) == f[1] = "Diamond"

(* A signed prefixed formula is the tuple (sign, prefix, formula) of the   *)
(* type Branch; a prefix "1.2.1" is the sequence <<1, 2, 1>>.              *)
Root == <<1>>
NoBranches == <<>>
NoParent == <<>>

(* a prefix two components longer *)
ExtendTwice(prefix, k) == Append(Append(prefix, k), k)

(* f"{prefix}.{k}" *)
Extend(prefix, k) == Append(prefix, k)

-----------------------------------------------------------------------------
(* self.accessibility is a defaultdict(set): reading a missing key inserts *)
(* it with the empty set.                                                  *)

Successors(acc, w) == IF w \in DOMAIN acc THEN acc[w] ELSE {}

Touch(acc, w) == IF w \in DOMAIN acc THEN acc ELSE acc @@ (w :> {})

(* The orders in which iterating the Python set s can yield its elements.  *)
RECURSIVE Orders(_)
Orders(s) ==
    IF s = {} THEN {<<>>}
    ELSE UNION {{<<x>> \o o : o \in Orders(s \ {x})} : x \in s}

-----------------------------------------------------------------------------
(* is_closed: per world, the names of the T-atoms and of the F-atoms; the  *)
(* branch is closed when the two sets of some world intersect.             *)

world_formulas(branch, world) ==
    <<{branch[i][3][2] : i \in {j \in DOMAIN branch :
            IsAtom(branch[j][3]) /\ branch[j][2] = world /\ branch[j][1]}},
      {branch[i][3][2] : i \in {j \in DOMAIN branch :
            IsAtom(branch[j][3]) /\ branch[j][2] = world /\ ~branch[j][1]}}>>

(* is_closed with the names collected per branch instead of per world *)
is_closed_any_world(branch, acc) ==
    \E i, j \in DOMAIN branch :
        /\ IsAtom(branch[i][3]) /\ branch[i][3] = branch[j][3]
        /\ branch[i][1] /\ ~branch[j][1]

is_closed(branch, acc) ==
    \E world \in {branch[i][2] : i \in {j \in DOMAIN branch : IsAtom(branch[j][3])}} :
        world_formulas(branch, world)[1] \cap world_formulas(branch, world)[2] # {}

-----------------------------------------------------------------------------
(* apply_rule(sign, prefix, formula).  The method reads and writes         *)
(* self.accessibility and self.new_world_created, so the operator takes    *)
(* them and returns them with the list of fragments.  order is the order   *)
(* in which the loop over self.accessibility[prefix] yields the set.       *)

Fragments(result, acc, nwc) ==
    [result |-> result, accessibility |-> acc, new_world_created |-> nwc]

(* a new world named from the size of the set without the "+ 1" *)
NewWorldReused(acc, prefix) == Extend(prefix, Cardinality(Successors(acc, prefix)))

NewWorld(acc, prefix) == Extend(prefix, Cardinality(Successors(acc, prefix)) + 1)

(* a delta rule that records no edge *)
AddEdgeNone(acc, prefix, new_world) == Touch(acc, prefix)

(* an assignment of the successor set in place of the add *)
AddEdgeAssigns(acc, prefix, new_world) ==
    [Touch(acc, prefix) EXCEPT ![prefix] = {new_world}]

AddEdge(acc, prefix, new_world) ==
    [Touch(acc, prefix) EXCEPT ![prefix] = @ \cup {new_world}]

(* the universal rule instantiated at the first world of the loop only *)
UniversalFirstOnly(sign, order, body) ==
    IF order = <<>> THEN <<>>
    ELSE << << <<sign, order[1], body>> >> >>

Universal(sign, order, body) ==
    IF order = <<>> THEN <<>>
    ELSE << [i \in DOMAIN order |-> <<sign, order[i], body>>] >>

(* apply_rule with one fragment for every connective and no change of sign *)
apply_rule_keeps_sign(acc, nwc, sign, prefix, f, order) ==
    IF IsAtom(f) THEN Fragments(<<>>, acc, nwc)
    ELSE IF IsNot(f) \/ IsBox(f) \/ IsDiamond(f)
    THEN Fragments(<< << <<sign, prefix, f[2]>> >> >>, acc, nwc)
    ELSE Fragments(<< [i \in DOMAIN f[2] |-> <<sign, prefix, f[2][i]>>] >>, acc, nwc)

apply_rule(acc, nwc, sign, prefix, f, order) ==
    CASE IsAtom(f) -> Fragments(<<>>, acc, nwc)
      [] IsNot(f) -> Fragments(<< << <<~sign, prefix, f[2]>> >> >>, acc, nwc)
      [] IsAnd(f) ->
            IF sign
            THEN Fragments(<< [i \in DOMAIN f[2] |-> <<TRUE, prefix, f[2][i]>>] >>, acc, nwc)
            ELSE Fragments([i \in DOMAIN f[2] |-> << <<FALSE, prefix, f[2][i]>> >>], acc, nwc)
      [] IsOr(f) ->
            IF sign
            THEN Fragments([i \in DOMAIN f[2] |-> << <<TRUE, prefix, f[2][i]>> >>], acc, nwc)
            ELSE Fragments(<< [i \in DOMAIN f[2] |-> <<FALSE, prefix, f[2][i]>>] >>, acc, nwc)
      [] IsImplies(f) ->
            IF sign
            THEN Fragments(<< << <<FALSE, prefix, f[2][1]>> >>,
                              << <<TRUE, prefix, f[2][2]>> >> >>, acc, nwc)
            ELSE Fragments(<< << <<TRUE, prefix, f[2][1]>>,
                                 <<FALSE, prefix, f[2][2]>> >> >>, acc, nwc)
      [] IsBox(f) ->
            IF sign
            THEN Fragments(Universal(TRUE, order, f[2]), Touch(acc, prefix), nwc)
            ELSE Fragments(<< << <<FALSE, NewWorld(acc, prefix), f[2]>> >> >>,
                           AddEdge(acc, prefix, NewWorld(acc, prefix)), TRUE)
      [] IsDiamond(f) ->
            IF sign
            THEN Fragments(<< << <<TRUE, NewWorld(acc, prefix), f[2]>> >> >>,
                           AddEdge(acc, prefix, NewWorld(acc, prefix)), TRUE)
            ELSE Fragments(Universal(FALSE, order, f[2]), Touch(acc, prefix), nwc)

(* add_node(formulas, parent_id): node_id is 'node{node_count}'; the node  *)
(* is appended to the children of its parent when parent_id is given.     *)
(* The label is the text of the branch; it is kept as the branch itself.   *)
add_node(t, count, formulas, parent_id) ==
    LET node == [label |-> formulas, children |-> <<>>, parent |-> parent_id]
        added == Append(t, node)
    IN  IF parent_id # NoParent
        THEN [added EXCEPT ![parent_id[1] + 1].children = Append(@, count)]
        ELSE added

-----------------------------------------------------------------------------
(* expand_branch(branch, depth, parent_id), one invocation per step.  An   *)
(* item of the work list is one pending invocation.  Every recursive call  *)
(* returns a non-empty list (the method ends in "return [branch]"), so the *)
(* "if expanded_branches: return expanded_branches" of the F-Box and T-Box *)
(* loops always returns on the first rule that fires: a tail call.  The    *)
(* loop over the fragments of the other rules extends expanded_branches in *)
(* order, which is the depth-first order of the work list.                 *)

DepthLimit == 100

Item(branch, depth, parent_id) == [branch |-> branch, depth |-> depth, parent_id |-> parent_id]

Min(s) == CHOOSE x \in s : \A y \in s : x <= y

(* a replacement that leaves the fired formula on the branch *)
ReplaceKeepsFired(branch, i, new_branch) ==
    SubSeq(branch, 1, i) \o new_branch \o SubSeq(branch, i + 1, Len(branch))

(* branch[:i] + new_branch + branch[i + 1:], with i counted from 1 *)
Replace(branch, i, new_branch) ==
    SubSeq(branch, 1, i - 1) \o new_branch \o SubSeq(branch, i + 1, Len(branch))

RECURSIVE Flatten(_)
Flatten(ss) == IF ss = <<>> THEN <<>> ELSE Head(ss) \o Flatten(Tail(ss))

(* whether apply_rule returns a non-empty list for the formula: the answer *)
(* does not depend on the order the successor set is enumerated in         *)
Expands(acc, spf) ==
    apply_rule(acc, FALSE, spf[1], spf[2], spf[3],
               CHOOSE o \in Orders(Successors(acc, spf[2])) : TRUE).result # <<>>

(* f_box_formulas *)
f_box_formulas(branch) == {i \in DOMAIN branch : IsBox(branch[i][3]) /\ ~branch[i][1]}

(* t_box_formulas *)
t_box_formulas(branch) == {i \in DOMAIN branch : IsBox(branch[i][3]) /\ branch[i][1]}

(* the second loop skips atoms and T-Box formulas without calling apply_rule *)
Skipped(spf) == IsAtom(spf[3]) \/ (IsBox(spf[3]) /\ spf[1])

(* The loop "for i, (sign, prefix, formula) in enumerate(branch)" from     *)
(* index i on: the index of the first formula whose rule returns a         *)
(* non-empty result (0 when there is none) and the store as the calls of   *)
(* apply_rule that returned [] have left it.                               *)
RECURSIVE other_scan(_, _, _)
other_scan(branch, i, acc) ==
    IF i > Len(branch) THEN [index |-> 0, accessibility |-> acc]
    ELSE IF Skipped(branch[i]) THEN other_scan(branch, i + 1, acc)
    ELSE IF Expands(acc, branch[i]) THEN [index |-> i, accessibility |-> acc]
    ELSE other_scan(branch, i + 1,
            apply_rule(acc, FALSE, branch[i][1], branch[i][2], branch[i][3], <<>>).accessibility)

(* The loop over t_box_formulas, likewise.                                 *)
RECURSIVE t_box_scan(_, _, _)
t_box_scan(branch, i, acc) ==
    IF i > Len(branch) THEN [index |-> 0, accessibility |-> acc]
    ELSE IF i \notin t_box_formulas(branch) THEN t_box_scan(branch, i + 1, acc)
    ELSE IF Expands(acc, branch[i]) THEN [index |-> i, accessibility |-> acc]
    ELSE t_box_scan(branch, i + 1,
            apply_rule(acc, FALSE, branch[i][1], branch[i][2], branch[i][3], <<>>).accessibility)

(* The branches the second loop recurses into for the rule fired at index  *)
(* i: new_full_branch for each fragment, except for a T-Or formula, where  *)
(* it is [sub_branch] + new_full_branch[i + 1:] for each sub_branch of the  *)
(* fragment.                                                               *)
new_full_branch(branch, i, new_branch) == Replace(branch, i, new_branch)

(* the recursion into the first fragment only *)
ChildrenFirstOnly(branch, i, result) == <<new_full_branch(branch, i, result[1])>>

Children(branch, i, result) ==
    IF IsOr(branch[i][3]) /\ branch[i][1]
    THEN Flatten([k \in DOMAIN result |->
            [m \in DOMAIN result[k] |->
                <<result[k][m]>> \o SubSeq(new_full_branch(branch, i, result[k]), i + 1,
                                           Len(new_full_branch(branch, i, result[k])))]])
    ELSE [k \in DOMAIN result |-> new_full_branch(branch, i, result[k])]

(* the kind of rule apply_rule uses for a signed formula *)
RuleKind(spf) ==
    CASE IsAtom(spf[3]) -> "literal"
      [] IsNot(spf[3]) -> "alpha"
      [] IsAnd(spf[3]) -> IF spf[1] THEN "alpha" ELSE "beta"
      [] IsOr(spf[3]) -> IF spf[1] THEN "beta" ELSE "alpha"
      [] IsImplies(spf[3]) -> IF spf[1] THEN "beta" ELSE "alpha"
      [] IsBox(spf[3]) -> IF spf[1] THEN "nu" ELSE "delta"
      [] IsDiamond(spf[3]) -> IF spf[1] THEN "delta" ELSE "nu"

Running == pc = "expand" /\ work # <<>>

Entered == Running /\ Head(work).depth <= DepthLimit

(* "if depth > 100: return [branch]" *)
DepthGuard ==
    /\ Running
    /\ Head(work).depth > DepthLimit
    /\ new_branches' = Append(new_branches, Head(work).branch)
    /\ work' = Tail(work)
    /\ UNCHANGED <<app_vars, caller, formula, branches, accessibility, new_world_created, deferred_expansions,
                   node_count, tree, pc, method, max_iterations, iteration, solver, calls, hist>>

(* node_id = self.add_node(branch, parent_id) *)
AddNode ==
    /\ tree' = add_node(tree, node_count, Head(work).branch, Head(work).parent_id)
    /\ node_count' = node_count + 1

(* the recursive calls expand_branch(child, depth + 1, node_id) *)
Recurse(children) ==
    work' = [k \in DOMAIN children |->
                Item(children[k], Head(work).depth + 1, <<node_count>>)] \o Tail(work)

(* "First, expand all F [] formulas" *)
ExpandFBox ==
    /\ Entered
    /\ f_box_formulas(Head(work).branch) # {}
    /\ LET branch == Head(work).branch
           i == Min(f_box_formulas(branch))
           r == apply_rule(accessibility, new_world_created,
                           branch[i][1], branch[i][2], branch[i][3], <<>>)
       IN  /\ AddNode
           /\ accessibility' = r.accessibility
           /\ new_world_created' = r.new_world_created
           /\ Recurse(<<new_full_branch(branch, i, r.result[1])>>)
    /\ UNCHANGED <<app_vars, caller, formula, branches, deferred_expansions, pc, method, max_iterations,
                   iteration, new_branches, solver, calls, hist>>

(* "Then, expand other formulas": the first formula of the branch, in      *)
(* index order, that is no atom and no T-Box and whose rule returns a      *)
(* non-empty result.                                                       *)
ExpandOther ==
    /\ Entered
    /\ f_box_formulas(Head(work).branch) = {}
    /\ LET branch == Head(work).branch
           scan == other_scan(branch, 1, accessibility)
           i == scan.index
       IN  /\ i # 0
           /\ \E order \in Orders(Successors(scan.accessibility, branch[i][2])) :
                LET r == apply_rule(scan.accessibility, new_world_created,
                                    branch[i][1], branch[i][2], branch[i][3], order)
                IN  /\ AddNode
                    /\ accessibility' = r.accessibility
                    /\ new_world_created' = r.new_world_created
                    /\ Recurse(Children(branch, i, r.result))
    /\ UNCHANGED <<app_vars, caller, formula, branches, deferred_expansions, pc, method, max_iterations,
                   iteration, new_branches, solver, calls, hist>>

(* the kind of the rule the second loop fires in the invocation at the     *)
(* head of the work list                                                   *)
OtherKind ==
    LET branch == Head(work).branch
        i == other_scan(branch, 1, accessibility).index
    IN  IF i = 0 THEN "none" ELSE RuleKind(branch[i])

ExpandAlpha ==
    /\ Running
    /\ OtherKind = "alpha"
    /\ ExpandOther

ExpandBeta ==
    /\ Running
    /\ OtherKind = "beta"
    /\ ExpandOther

ExpandTDiamond ==
    /\ Running
    /\ OtherKind = "delta"
    /\ ExpandOther

ExpandFDiamond ==
    /\ Running
    /\ OtherKind = "nu"
    /\ ExpandOther

(* "If no expansion was possible, expand deferred T [] formulas" *)
ExpandTBox ==
    /\ Entered
    /\ f_box_formulas(Head(work).branch) = {}
    /\ LET branch == Head(work).branch
           scan == other_scan(branch, 1, accessibility)
           tscan == t_box_scan(branch, 1, scan.accessibility)
           i == tscan.index
       IN  /\ scan.index = 0
           /\ i # 0
           /\ \E order \in Orders(Successors(tscan.accessibility, branch[i][2])) :
                LET r == apply_rule(tscan.accessibility, new_world_created,
                                    branch[i][1], branch[i][2], branch[i][3], order)
                IN  /\ AddNode
                    /\ accessibility' = r.accessibility
                    /\ new_world_created' = r.new_world_created
                    /\ Recurse(<<new_full_branch(branch, i, r.result[1])>>)
    /\ UNCHANGED <<app_vars, caller, formula, branches, deferred_expansions, pc, method, max_iterations,
                   iteration, new_branches, solver, calls, hist>>

(* "If no expansion was possible, return the branch as is" *)
NoExpansion ==
    /\ Entered
    /\ f_box_formulas(Head(work).branch) = {}
    /\ LET branch == Head(work).branch
           scan == other_scan(branch, 1, accessibility)
           tscan == t_box_scan(branch, 1, scan.accessibility)
       IN  /\ scan.index = 0
           /\ tscan.index = 0
           /\ AddNode
           /\ accessibility' = tscan.accessibility
           /\ new_branches' = Append(new_branches, branch)
           /\ work' = Tail(work)
    /\ UNCHANGED <<app_vars, caller, formula, branches, new_world_created, deferred_expansions, pc, method,
                   max_iterations, iteration, solver, calls, hist>>

-----------------------------------------------------------------------------
(* The formulas a solver is constructed for.                               *)

MaxFormulaSize == 3
MaxCalls == 2
MaxSolvers == 2
(* a default under which the loop of solve runs once: range(1) = {0} *)
OneIteration == Cardinality({0})

DefaultMaxIterations == 1000

AtomNames == {"p", "q"}

(* every formula with n nodes built from the atoms with the unary and the  *)
(* binary constructors, as the parser builds them (And and Or of two)      *)
RECURSIVE FormulasOfSize(_)
FormulasOfSize(n) ==
    IF n = 1 THEN {Atom(a) : a \in AtomNames}
    ELSE UNION {{Not(f), Box(f), Diamond(f)} : f \in FormulasOfSize(n - 1)}
         \cup UNION {UNION {{And(<<f, g>>), Or(<<f, g>>), Implies(f, g)} :
                                f \in FormulasOfSize(k), g \in FormulasOfSize(n - 1 - k)} :
                            k \in 1..(n - 2)}

SmallFormulas == UNION {FormulasOfSize(n) : n \in 1..MaxFormulaSize}

(* src/test.py, test_valid_in_K, and row 5 of the scenarios *)
ValidFormulas ==
    { Or(<<Atom("p"), Not(Atom("p"))>>),
      Implies(Box(Implies(Atom("p"), Atom("q"))), Implies(Box(Atom("p")), Box(Atom("q")))),
      Implies(Diamond(Or(<<Atom("p"), Atom("q")>>)),
              Or(<<Diamond(Atom("p")), Diamond(Atom("q"))>>)) }

(* src/test.py, test_satisfiable_but_not_valid_in_K *)
SatisfiableFormulas ==
    { Diamond(Or(<<Atom("p"), Not(Atom("p"))>>)),
      Implies(Box(Atom("p")), Atom("p")),
      Implies(Atom("p"), Diamond(Atom("p"))),
      Implies(Box(Atom("p")), Diamond(Atom("p"))),
      Implies(Diamond(Box(Atom("p"))), Box(Atom("p"))),
      Implies(Box(Or(<<Atom("p"), Atom("q")>>)), Or(<<Box(Atom("p")), Box(Atom("q"))>>)),
      Implies(Box(Atom("p")), Implies(Atom("q"), Box(Atom("q")))),
      Diamond(Atom("p")),
      Box(Atom("p")),
      Implies(Box(Atom("p")), Box(Box(Atom("p")))),
      Implies(Diamond(Box(Atom("p"))), Atom("p")) }

(* src/test.py, test_unsatisfiable_formulas *)
UnsatisfiableFormulas ==
    { And(<<Atom("p"), Not(Atom("p"))>>),
      Box(And(<<Atom("p"), Not(Atom("p"))>>)),
      Diamond(And(<<Atom("p"), Not(Atom("p"))>>)),
      And(<<And(<<Atom("p"), Not(Atom("q"))>>), And(<<Atom("q"), Not(Atom("p"))>>)>>) }

(* further inputs: []p -> ([]p & <>p), p | ~(p | p), [](p | p) -> (<>p -> []p),   *)
(* ~<>~([](p | p) -> (<>p -> []p)), <>p | (<>p -> []p)                      *)
OtherFormulas ==
    { Implies(Box(Atom("p")), And(<<Box(Atom("p")), Diamond(Atom("p"))>>)),
      Or(<<Atom("p"), Not(Or(<<Atom("p"), Atom("p")>>))>>),
      Implies(Box(Or(<<Atom("p"), Atom("p")>>)),
              Implies(Diamond(Atom("p")), Box(Atom("p")))),
      Not(Diamond(Not(Implies(Box(Or(<<Atom("p"), Atom("p")>>)),
                              Implies(Diamond(Atom("p")), Box(Atom("p"))))))),
      Or(<<Diamond(Atom("p")), Implies(Diamond(Atom("p")), Box(Atom("p")))>>) }

(* a formula with more connectives on one branch than the depth limit *)
RECURSIVE NotChain(_, _)
NotChain(n, f) == IF n = 0 THEN f ELSE Not(NotChain(n - 1, f))

DeepFormula == NotChain(DepthLimit + 1, Atom("p"))

Formulas ==
    SmallFormulas \cup ValidFormulas \cup SatisfiableFormulas \cup UnsatisfiableFormulas
        \cup OtherFormulas \cup {DeepFormula}

(* the modal De Morgan partner of ~[]g and of ~<>g *)
DeMorganPartner(f) ==
    IF IsNot(f) /\ IsBox(f[2]) THEN {Diamond(Not(f[2][2]))}
    ELSE IF IsNot(f) /\ IsDiamond(f[2]) THEN {Box(Not(f[2][2]))}
    ELSE {}

(* the formulas a second solver of one session is constructed for *)
Related(f) == {f, Not(f), Not(Not(f))} \cup DeMorganPartner(f)

(* the max_iterations arguments of the calls: the default, and none at all *)
IterationLimits == {DefaultMaxIterations, 0}

-----------------------------------------------------------------------------
(* custom_parse_formula(s), src/full_code.py lines 485-543.  A Python str  *)
(* is a sequence of one-character strings; positions are counted from 0   *)
(* as in the source, so the character at position i is s[i + 1].  The     *)
(* nested parse functions call one another recursively; the recursion is  *)
(* unfolded into a stack of frames, one step per call and per return.     *)

(* sys.getrecursionlimit() of the interpreter: a call that would make the *)
(* stack deeper raises RecursionError                                     *)
RecursionLimit == 1000

(* the characters U+25A1 and U+2662, each one character of the input *)
WhiteSquare == "U+25A1"
WhiteDiamond == "U+2662"

Letters == {"a", "b", "c", "p", "q", "P"}

(* str.isalpha() on one character *)
isalpha(c) == c \in Letters

CharAt(s, i) == s[i + 1]

(* s[i:i + 2] == a + b *)
TwoAt(s, i, a, b) == i < Len(s) - 1 /\ CharAt(s, i) = a /\ CharAt(s, i + 1) = b

(* s[i] == a *)
OneAt(s, i, a) == i < Len(s) /\ CharAt(s, i) = a

(* s.replace(old, new) for a one-character old *)
RECURSIVE replace(_, _, _)
replace(s, old, new) ==
    IF s = <<>> THEN <<>>
    ELSE IF Len(s) = 1 THEN (IF s[1] = old THEN new ELSE s)
    ELSE LET half == Len(s) \div 2
         IN  replace(SubSeq(s, 1, half), old, new) \o replace(SubSeq(s, half + 1, Len(s)), old, new)

(* lines 486-488: the string the parse functions read *)
Cleaned(str) ==
    replace(replace(replace(str, " ", <<>>), WhiteSquare, <<"[", "]">>),
            WhiteDiamond, <<"<", ">">>)

(* an optional value: None, or the value *)
None == <<>>

Some(x) == <<x>>

(* what a parse function returns: the formula and the next position *)
Parsed(f, i) == [formula |-> f, i |-> i]

(* what custom_parse_formula gives: the formula, or the exception raised *)
Formula(f) == [kind |-> "ok", formula |-> f]

Raises(exception) == [kind |-> exception]

(* the frame of a call fn(i); at is the place the call has reached: at its *)
(* start, or waiting for the call it made; left is the local of that name  *)
NoLeft == <<>>

Frame(fn, i) == [fn |-> fn, i |-> i, at |-> "start", left |-> NoLeft]

Top == frames[Len(frames)]

InParser == frames # <<>> \/ ret # None

(* the call fn(i) from the running frame, which goes on at place at when   *)
(* the call returns; the frame of custom_parse_formula is below the frames *)
(* of the parse functions                                                  *)
Calls(fn, i, at, left) ==
    IF Len(frames) + 2 > RecursionLimit
    THEN /\ frames' = <<>>
         /\ ret' = None
         /\ parsed' = Some(Raises("RecursionError"))
    ELSE /\ frames' = Append([frames EXCEPT ![Len(frames)].at = at, ![Len(frames)].left = left],
                             Frame(fn, i))
         /\ ret' = None
         /\ UNCHANGED parsed

(* return value *)
Returns(value) ==
    /\ frames' = SubSeq(frames, 1, Len(frames) - 1)
    /\ ret' = Some(value)
    /\ UNCHANGED parsed

(* raise ValueError(...): no parse function catches it *)
RaisesValueError ==
    /\ frames' = <<>>
    /\ ret' = None
    /\ parsed' = Some(Raises("ValueError"))

(* the running frame is a call of fn at place at *)
Running_(fn, at) ==
    /\ frames # <<>>
    /\ Top.fn = fn
    /\ Top.at = at
    /\ (at = "start") = (ret = None)

ParserFrame == UNCHANGED <<solver_vars, text, report, solutions, solutions_to_remove,
                           selected_index, current_formula, editing>>

parse_atom ==
    /\ Running_("parse_atom", "start")
    /\ LET s == Cleaned(text)
           i == Top.i
       IN  IF i < Len(s) /\ isalpha(CharAt(s, i))
           THEN Returns(Parsed(Atom(CharAt(s, i)), i + 1))
           ELSE RaisesValueError
    /\ ParserFrame

parse_not ==
    /\ LET s == Cleaned(text)
           i == Top.i
       IN  \/ /\ Running_("parse_not", "start")
              /\ IF OneAt(s, i, "~")
                 THEN Calls("parse_modal", i + 1, "negated", NoLeft)
                 ELSE Calls("parse_modal", i, "plain", NoLeft)
           \/ /\ Running_("parse_not", "negated")
              /\ Returns(Parsed(Not(ret[1].formula), ret[1].i))
           \/ /\ Running_("parse_not", "plain")
              /\ Returns(ret[1])
    /\ ParserFrame

parse_modal ==
    /\ LET s == Cleaned(text)
           i == Top.i
       IN  \/ /\ Running_("parse_modal", "start")
              /\ IF TwoAt(s, i, "[", "]") THEN Calls("parse_not", i + 2, "box", NoLeft)
                 ELSE IF TwoAt(s, i, "<", ">") THEN Calls("parse_not", i + 2, "diamond", NoLeft)
                 ELSE Calls("parse_parentheses", i, "plain", NoLeft)
           \/ /\ Running_("parse_modal", "box")
              /\ Returns(Parsed(Box(ret[1].formula), ret[1].i))
           \/ /\ Running_("parse_modal", "diamond")
              /\ Returns(Parsed(Diamond(ret[1].formula), ret[1].i))
           \/ /\ Running_("parse_modal", "plain")
              /\ Returns(ret[1])
    /\ ParserFrame

(* the test of the while loop of parse_or and what follows it, with left   *)
(* and i as they are after the call that has returned                      *)
OrLoop(left, i) ==
    IF OneAt(Cleaned(text), i, "|")
    THEN Calls("parse_not", i + 1, "right", left)
    ELSE Returns(Parsed(left, i))

parse_or ==
    /\ \/ /\ Running_("parse_or", "start")
          /\ Calls("parse_not", Top.i, "left", NoLeft)
       \/ /\ Running_("parse_or", "left")
          /\ OrLoop(ret[1].formula, ret[1].i)
       \/ /\ Running_("parse_or", "right")
          /\ OrLoop(Or(<<Top.left, ret[1].formula>>), ret[1].i)
    /\ ParserFrame

(* the test of the while loop of parse_and and what follows it *)
AndLoop(left, i) ==
    IF OneAt(Cleaned(text), i, "&")
    THEN Calls("parse_or", i + 1, "right", left)
    ELSE Returns(Parsed(left, i))

parse_and ==
    /\ \/ /\ Running_("parse_and", "start")
          /\ Calls("parse_or", Top.i, "left", NoLeft)
       \/ /\ Running_("parse_and", "left")
          /\ AndLoop(ret[1].formula, ret[1].i)
       \/ /\ Running_("parse_and", "right")
          /\ AndLoop(And(<<Top.left, ret[1].formula>>), ret[1].i)
    /\ ParserFrame

parse_implies ==
    /\ \/ /\ Running_("parse_implies", "start")
          /\ Calls("parse_and", Top.i, "left", NoLeft)
       \/ /\ Running_("parse_implies", "left")
          /\ IF TwoAt(Cleaned(text), ret[1].i, "-", ">")
             THEN Calls("parse_implies", ret[1].i + 2, "right", ret[1].formula)
             ELSE Returns(ret[1])
       \/ /\ Running_("parse_implies", "right")
          /\ Returns(Parsed(Implies(Top.left, ret[1].formula), ret[1].i))
    /\ ParserFrame

parse_parentheses ==
    /\ \/ /\ Running_("parse_parentheses", "start")
          /\ IF OneAt(Cleaned(text), Top.i, "(")
             THEN Calls("parse_implies", Top.i + 1, "inner", NoLeft)
             ELSE Calls("parse_atom", Top.i, "plain", NoLeft)
       \/ /\ Running_("parse_parentheses", "inner")
          /\ IF OneAt(Cleaned(text), ret[1].i, ")")
             THEN Returns(Parsed(ret[1].formula, ret[1].i + 1))
             ELSE RaisesValueError
       \/ /\ Running_("parse_parentheses", "plain")
          /\ Returns(ret[1])
    /\ ParserFrame

(* lines 538-541: parse_implies(0) has returned to custom_parse_formula *)
custom_parse_formula_end ==
    /\ frames = <<>>
    /\ ret # None
    /\ parsed' = Some(IF ret[1].i < Len(Cleaned(text)) THEN Raises("ValueError")
                      ELSE Formula(ret[1].formula))
    /\ ret' = None
    /\ UNCHANGED frames
    /\ ParserFrame

(* the call custom_parse_formula(str): formula, i = parse_implies(0) *)
custom_parse_formula(str) ==
    /\ text' = str
    /\ parsed' = None
    /\ frames' = <<Frame("parse_implies", 0)>>
    /\ ret' = None

(* ", ".join-like: the strings of a list with a separator between them *)
RECURSIVE join(_, _)
join(sep, strs) ==
    IF strs = <<>> THEN <<>>
    ELSE IF Len(strs) = 1 THEN strs[1]
    ELSE strs[1] \o sep \o join(sep, Tail(strs))

(* Tableaux.formula_to_string *)
RECURSIVE formula_to_string(_)
formula_to_string(f) ==
    CASE IsAtom(f) -> <<f[2]>>
      [] IsNot(f) -> <<"~">> \o formula_to_string(f[2])
      [] IsAnd(f) ->
            <<"(">> \o join(<<" ", "&", " ">>, [k \in DOMAIN f[2] |-> formula_to_string(f[2][k])])
                \o <<")">>
      [] IsOr(f) ->
            <<"(">> \o join(<<" ", "|", " ">>, [k \in DOMAIN f[2] |-> formula_to_string(f[2][k])])
                \o <<")">>
      [] IsImplies(f) ->
            <<"(">> \o formula_to_string(f[2][1]) \o <<" ", "-", ">", " ">>
                \o formula_to_string(f[2][2]) \o <<")">>
      [] IsBox(f) -> <<"[", "]">> \o formula_to_string(f[2])
      [] IsDiamond(f) -> <<"<", ">">> \o formula_to_string(f[2])

(* solve_formula, src/app.py lines 10-53, after custom_parse_formula: the  *)
(* first three members of the tuple it returns.  is_valid and              *)
(* is_satisfiable are the answers of check_validity and                    *)
(* check_satisfiability on two solvers made for the parsed formula; a      *)
(* ValueError is reported as "INVALID", and an exception that is neither a *)
(* ValueError nor a TimeoutError by the last except clause.                *)
solve_formula_returns(outcome, is_valid, is_satisfiable) ==
    IF outcome.kind = "ok"
    THEN <<Some(is_valid), Some(is_satisfiable), formula_to_string(outcome.formula)>>
    ELSE IF outcome.kind = "ValueError" THEN <<None, None, <<"INVALID">> >>
    ELSE <<None, None, <<"An unexpected error occurred: ", outcome.kind>> >>

-----------------------------------------------------------------------------
(* The front end, src/app.py main(): one action per interaction, each with *)
(* the rerun of the script that follows it.  The Solve button is two       *)
(* steps, with the steps of the parser between them.                       *)

(* "p & q" *)
DefaultText == <<"p", " ", "&", " ", "q">>

(* the texts typed into the formula input *)
UITexts == {DefaultText, <<"[", "]", "p">>, <<"p", "&">>}

MaxSolutions == 3

(* the session state of a new session, lines 233-243 *)
AppIdle ==
    /\ text = <<>>
    /\ parsed = None
    /\ frames = <<>>
    /\ ret = None
    /\ report = None
    /\ solutions = <<>>
    /\ solutions_to_remove = <<>>
    /\ selected_index = None
    /\ current_formula = DefaultText
    /\ editing = FALSE

(* the script is inside solve_formula *)
Solving == InParser \/ (parsed # None /\ report = None)

(* del lst[index], with index counted from 0 *)
Delete(lst, index) == SubSeq(lst, 1, index) \o SubSeq(lst, index + 2, Len(lst))

(* select_solution(index), the on_click callback of a solution button *)
select_solution ==
    /\ ~Solving
    /\ \E index \in 0..(Len(solutions) - 1) :
            /\ selected_index' = Some(index)
            /\ current_formula' = solutions[index + 1][1]
            /\ editing' = TRUE
    /\ solutions_to_remove' = <<>>
    /\ UNCHANGED <<solver_vars, text, parsed, frames, ret, report, solutions>>

(* the text input returns a text other than current_formula, lines 298-303 *)
EditText ==
    /\ ~Solving
    /\ \E formula_str \in UITexts \ {current_formula} :
            current_formula' = formula_str
    /\ selected_index' = IF ~editing THEN None ELSE selected_index
    /\ solutions_to_remove' = <<>>
    /\ UNCHANGED <<solver_vars, text, parsed, frames, ret, report, solutions, editing>>

(* a selection that is not moved down with the entries after the deleted one *)
AfterDeleteKeeps(index, selected) ==
    IF selected # None /\ index = selected[1] THEN None ELSE selected

(* the selection after "del solutions[index]", lines 263-269: None where   *)
(* the deleted entry was the selected one                                  *)
AfterDelete(index, selected) ==
    IF selected # None /\ index < selected[1] THEN Some(selected[1] - 1)
    ELSE IF selected # None /\ index = selected[1] THEN None
    ELSE selected

(* a delete button, lines 255-280 *)
DeleteSolution ==
    /\ ~Solving
    /\ \E index \in 0..(Len(solutions) - 1) :
        LET remaining == Delete(solutions, index)
            selected == AfterDelete(index, selected_index)
        IN  /\ solutions_to_remove' = <<index>>
            /\ solutions' = remaining
            /\ IF remaining # <<>>
               THEN IF selected = None \/ selected[1] >= Len(remaining)
                    THEN /\ selected_index' = Some(Len(remaining) - 1)
                         /\ current_formula' = remaining[Len(remaining)][1]
                         /\ editing' = TRUE
                    ELSE /\ selected_index' = selected
                         /\ UNCHANGED <<current_formula, editing>>
               ELSE /\ selected_index' = None
                    /\ current_formula' = DefaultText
                    /\ editing' = FALSE
    /\ UNCHANGED <<solver_vars, text, parsed, frames, ret, report>>

(* the Solve button, lines 305-308: solve_formula(formula_str) is called   *)
(* with the text of the input and calls custom_parse_formula               *)
Solve ==
    /\ ~Solving
    /\ \/ Len(solutions) < MaxSolutions
       \/ editing /\ selected_index # None
    /\ custom_parse_formula(current_formula)
    /\ report' = None
    /\ solutions_to_remove' = <<>>
    /\ UNCHANGED <<solver_vars, solutions, selected_index, current_formula, editing>>

(* the Solve button, lines 307-331, from the return of solve_formula *)
Solved ==
    /\ ~InParser
    /\ parsed # None
    /\ report = None
    /\ \E is_valid, is_satisfiable \in BOOLEAN :
        LET formula_str == current_formula
            result == solve_formula_returns(parsed[1], is_valid, is_satisfiable)
            solution == <<formula_str, is_valid, is_satisfiable, result[3]>>
        IN  /\ report' = Some(result)
            /\ IF result[1] # None /\ result[2] # None
               THEN /\ IF editing /\ selected_index # None
                       THEN /\ solutions' = [solutions EXCEPT ![selected_index[1] + 1] = solution]
                            /\ selected_index' = selected_index
                       ELSE /\ solutions' = Append(solutions, solution)
                            /\ selected_index' = Some(Len(solutions))
                    /\ current_formula' = formula_str
                    /\ editing' = FALSE
               ELSE UNCHANGED <<solutions, selected_index, current_formula, editing>>
    /\ UNCHANGED <<solver_vars, text, parsed, frames, ret, solutions_to_remove>>

-----------------------------------------------------------------------------
(* Tableaux.__init__ *)
Construct(f) ==
    /\ formula' = f
    /\ branches' = NoBranches
    /\ node_count' = 0
    /\ tree' = <<>>
    /\ accessibility' = (Root :> {})
    /\ deferred_expansions' = <<>>
    /\ new_world_created' = FALSE

(* a Tableaux object on which no call has been made *)
SolverIdle ==
    /\ branches = NoBranches
    /\ node_count = 0
    /\ tree = <<>>
    /\ accessibility = (Root :> {})
    /\ deferred_expansions = <<>>
    /\ new_world_created = FALSE
    /\ pc = "idle"
    /\ method = "none"
    /\ max_iterations = 0
    /\ iteration = 0
    /\ work = <<>>
    /\ new_branches = <<>>
    /\ solver = 1
    /\ calls = 0
    /\ hist = <<>>
    /\ caller = "none"

Init ==
    /\ formula \in Formulas
    /\ SolverIdle
    /\ AppIdle

(* a second solver of the session: Tableaux(g) *)
NewTableaux ==
    /\ pc = "idle"
    /\ calls >= 1
    /\ solver < MaxSolvers
    /\ Len(hist) < MaxCalls
    /\ \E g \in Related(formula) : Construct(g)
    /\ solver' = solver + 1
    /\ calls' = 0
    /\ UNCHANGED <<app_vars, caller, pc, method, max_iterations, iteration, work, new_branches, hist>>

(* check_satisfiability: self.branches = [[(False, "1", self.formula)]],   *)
(* then solve(max_iterations); check_validity calls check_satisfiability.  *)
(* The call is made directly or as the func of run_with_timeout.           *)
Seed(f) == <<FALSE, Root, f>>

Call ==
    /\ pc = "idle"
    /\ Len(hist) < MaxCalls
    /\ \E mi \in IterationLimits : max_iterations' = mi
    /\ branches' = << <<Seed(formula)>> >>
    /\ iteration' = 0
    /\ pc' = "solve"
    /\ calls' = calls + 1
    /\ \E c \in {"direct", "join"} : caller' = c
    /\ UNCHANGED <<app_vars, formula, accessibility, new_world_created, deferred_expansions,
                   node_count, tree, work, new_branches, solver, hist>>

check_validity ==
    /\ method' = "check_validity"
    /\ Call

check_satisfiability ==
    /\ method' = "check_satisfiability"
    /\ Call

(* solve: the head of "for iteration in range(max_iterations)" and the     *)
(* start of expand(): one invocation of expand_branch per branch           *)
SolveIterate ==
    /\ pc = "solve"
    /\ iteration < max_iterations
    /\ new_world_created' = FALSE
    /\ work' = [k \in DOMAIN branches |-> Item(branches[k], 0, NoParent)]
    /\ new_branches' = <<>>
    /\ pc' = "expand"
    /\ UNCHANGED <<app_vars, caller, formula, branches, accessibility, deferred_expansions, node_count, tree,
                   method, max_iterations, iteration, solver, calls, hist>>

(* solve: the loop ends with its range *)
SolveExhausted ==
    /\ pc = "solve"
    /\ iteration >= max_iterations
    /\ pc' = "finish"
    /\ UNCHANGED <<app_vars, caller, formula, branches, accessibility, new_world_created, deferred_expansions,
                   node_count, tree, method, max_iterations, iteration, work, new_branches,
                   solver, calls, hist>>

(* solve: "if new_branches == self.branches: break" *)
SolveFixpoint ==
    /\ pc = "expand"
    /\ work = <<>>
    /\ new_branches = branches
    /\ pc' = "finish"
    /\ UNCHANGED <<app_vars, caller, formula, branches, accessibility, new_world_created, deferred_expansions,
                   node_count, tree, method, max_iterations, iteration, work, new_branches,
                   solver, calls, hist>>

(* solve: apply_deferred_expansions() when no world was created, then      *)
(* self.branches = new_branches.  Nothing appends to deferred_expansions,  *)
(* so apply_deferred_expansions extends self.branches by the empty list    *)
(* and clears the empty list.                                              *)
SolveAssign ==
    /\ pc = "expand"
    /\ work = <<>>
    /\ new_branches # branches
    /\ deferred_expansions = <<>>
    /\ deferred_expansions' = <<>>
    /\ branches' = new_branches
    /\ iteration' = iteration + 1
    /\ pc' = "solve"
    /\ UNCHANGED <<app_vars, caller, formula, accessibility, new_world_created, node_count, tree, method,
                   max_iterations, work, new_branches, solver, calls, hist>>

(* solve: all(is_closed(branch, self.accessibility) for branch in self.branches) *)
all_closed(bs, acc) == \A k \in DOMAIN bs : is_closed(bs[k], acc)

(* both entry points return what solve returns *)
ReturnedClosed(m, closed) == closed

(* what the entry point returns: check_satisfiability returns              *)
(* "not self.solve(max_iterations)", check_validity returns True when that *)
(* is False and False otherwise                                            *)
Returned(m, closed) ==
    IF m = "check_satisfiability" THEN ~closed
    ELSE IF ~(~closed) THEN TRUE ELSE FALSE

Finish ==
    /\ pc = "finish"
    /\ hist' = Append(hist, [solver |-> solver, formula |-> formula, method |-> method,
                             first |-> (calls = 1), max_iterations |-> max_iterations,
                             tree |-> tree,
                             result |-> Returned(method, all_closed(branches, accessibility))])
    /\ pc' = "idle"
    /\ method' = "none"
    /\ caller' = "none"
    /\ UNCHANGED <<app_vars, formula, branches, accessibility, new_world_created, deferred_expansions,
                   node_count, tree, max_iterations, iteration, work, new_branches,
                   solver, calls>>

(* run_with_timeout(func): the call runs in a worker thread and the caller *)
(* waits in thread.join(timeout_duration).  When the join returns with the *)
(* thread still alive, run_with_timeout returns the TimeoutError; nothing  *)
(* stops the thread, which runs the call to its end and stores the answer  *)
(* in result[0].  When the thread ends first, the caller gets the answer.  *)
JoinTimesOut ==
    /\ caller = "join"
    /\ pc # "idle"
    /\ caller' = "timed_out"
    /\ UNCHANGED <<app_vars, formula, branches, accessibility, new_world_created, deferred_expansions,
                   node_count, tree, pc, method, max_iterations, iteration, work,
                   new_branches, solver, calls, hist>>

Next ==
    \/ NewTableaux
    \/ JoinTimesOut
    \/ check_validity
    \/ check_satisfiability
    \/ SolveIterate
    \/ SolveExhausted
    \/ DepthGuard
    \/ ExpandFBox
    \/ ExpandAlpha
    \/ ExpandBeta
    \/ ExpandTDiamond
    \/ ExpandFDiamond
    \/ ExpandTBox
    \/ NoExpansion
    \/ SolveFixpoint
    \/ SolveAssign
    \/ Finish

Spec == Init /\ [][Next]_vars

-----------------------------------------------------------------------------
(* Reference semantics of K: Kripke models with at most MaxWorlds worlds,  *)
(* any accessibility relation, any valuation of the atoms of the formula.  *)

MaxWorlds == 2

Worlds == 1..MaxWorlds

RECURSIVE AtomsOf(_)
AtomsOf(f) ==
    CASE IsAtom(f) -> {f[2]}
      [] IsNot(f) \/ IsBox(f) \/ IsDiamond(f) -> AtomsOf(f[2])
      [] OTHER -> UNION {AtomsOf(f[2][i]) : i \in DOMAIN f[2]}

(* the worlds of the model (R, V) at which f is true *)
RECURSIVE Ext(_, _, _)
Ext(f, R, V) ==
    CASE IsAtom(f) -> V[f[2]]
      [] IsNot(f) -> Worlds \ Ext(f[2], R, V)
      [] IsAnd(f) -> {w \in Worlds : \A i \in DOMAIN f[2] : w \in Ext(f[2][i], R, V)}
      [] IsOr(f) -> {w \in Worlds : \E i \in DOMAIN f[2] : w \in Ext(f[2][i], R, V)}
      [] IsImplies(f) -> (Worlds \ Ext(f[2][1], R, V)) \cup Ext(f[2][2], R, V)
      [] IsBox(f) ->
            LET e == Ext(f[2], R, V)
            IN  {w \in Worlds : \A v \in Worlds : <<w, v>> \in R => v \in e}
      [] IsDiamond(f) ->
            LET e == Ext(f[2], R, V)
            IN  {w \in Worlds : \E v \in Worlds : <<w, v>> \in R /\ v \in e}

KValid(f) ==
    \A R \in SUBSET (Worlds \X Worlds) : \A V \in [AtomsOf(f) -> SUBSET Worlds] :
        Ext(f, R, V) = Worlds

KSatisfiable(f) ==
    \E R \in SUBSET (Worlds \X Worlds) : \E V \in [AtomsOf(f) -> SUBSET Worlds] :
        Ext(f, R, V) # {}

-----------------------------------------------------------------------------
(* The decision calls of a session.                                        *)

(* call i was made with the default max_iterations as the first call on    *)
(* its solver                                                              *)
Fresh(i) == hist[i].first /\ hist[i].max_iterations = DefaultMaxIterations

IsValidity(i) == hist[i].method = "check_validity"

IsSatisfiability(i) == hist[i].method = "check_satisfiability"

(* call j is the call made next after call i, on the same solver *)
NextOnSameSolver(i, j) ==
    /\ j = i + 1
    /\ j \in DOMAIN hist
    /\ hist[j].solver = hist[i].solver
    /\ hist[j].max_iterations = DefaultMaxIterations

(* no rule of expand_branch applies to the branch *)
Saturated(branch, acc) ==
    /\ f_box_formulas(branch) = {}
    /\ other_scan(branch, 1, acc).index = 0
    /\ t_box_scan(branch, 1, acc).index = 0

(* C1: soundness of the validity answer: when check_validity() on a fresh  *)
(* Tableaux(phi) returns True, phi is true at every world of every Kripke  *)
(* model.                                                                  *)
C1_ValiditySound ==
    \A i \in DOMAIN hist :
        (IsValidity(i) /\ Fresh(i) /\ hist[i].result) => KValid(hist[i].formula)

(* C2: completeness of the validity answer: when phi is true at every      *)
(* world of every Kripke model, check_validity() on a fresh Tableaux(phi)  *)
(* returns True.                                                           *)
C2_ValidityComplete ==
    \A i \in DOMAIN hist :
        (IsValidity(i) /\ Fresh(i) /\ KValid(hist[i].formula)) => hist[i].result

(* C3: check_satisfiability() on a fresh Tableaux(phi) returns True if and *)
(* only if phi is true at some world of some Kripke model.                 *)
C3_SatisfiabilityCorrect ==
    \A i \in DOMAIN hist :
        (IsSatisfiability(i) /\ Fresh(i)) =>
            (hist[i].result <=> KSatisfiable(hist[i].formula))

(* C4: the satisfiability entry point starts from the single seed          *)
(* <T, "1", phi>, and returns True iff at least one branch is open and     *)
(* saturated when the driver stops.                                        *)
C4_SatisfiabilitySeedT ==
    /\ (method = "check_satisfiability" /\ pc = "solve" /\ iteration = 0) =>
            branches = << << <<TRUE, Root, formula>> >> >>
    /\ (pc = "idle" /\ calls >= 1 /\ hist # <<>> /\ IsSatisfiability(Len(hist))
            /\ hist[Len(hist)].max_iterations = DefaultMaxIterations) =>
            (hist[Len(hist)].result <=>
                \E k \in DOMAIN branches :
                    /\ ~is_closed(branches[k], accessibility)
                    /\ Saturated(branches[k], accessibility))

(* C5: duality: check_validity() on a fresh Tableaux(phi) is the negation  *)
(* of check_satisfiability() on a fresh Tableaux(Not(phi)).                *)
C5_Duality ==
    \A i, j \in DOMAIN hist :
        (/\ IsValidity(i) /\ Fresh(i)
         /\ IsSatisfiability(j) /\ Fresh(j)
         /\ hist[j].formula = Not(hist[i].formula)) =>
            (hist[i].result <=> ~hist[j].result)

(* C6: a valid formula is also satisfiable: when check_validity() returns  *)
(* True, check_satisfiability() called next on the same solver returns     *)
(* True.                                                                   *)
C6_ValidThenSatisfiable ==
    \A i, j \in DOMAIN hist :
        (/\ IsValidity(i) /\ hist[i].max_iterations = DefaultMaxIterations /\ hist[i].result
         /\ NextOnSameSolver(i, j) /\ IsSatisfiability(j)) => hist[j].result

(* C7: for p | ~p, the K axiom and <>(p | q) -> (<>p | <>q),              *)
(* check_validity() returns True and check_satisfiability() called         *)
(* afterwards on the same solver returns True.                             *)
C7_ValidScenarios ==
    \A i \in DOMAIN hist :
        (IsValidity(i) /\ Fresh(i) /\ hist[i].formula \in ValidFormulas) =>
            /\ hist[i].result
            /\ \A j \in DOMAIN hist :
                  (NextOnSameSolver(i, j) /\ IsSatisfiability(j)) => hist[j].result

(* C8: for every formula that is satisfiable but not valid in K,           *)
(* check_validity() returns False and check_satisfiability() called        *)
(* afterwards on the same solver returns True.                             *)
C8_SatisfiableNotValid ==
    \A i \in DOMAIN hist :
        (/\ IsValidity(i) /\ Fresh(i)
         /\ KSatisfiable(hist[i].formula) /\ ~KValid(hist[i].formula)) =>
            /\ ~hist[i].result
            /\ \A j \in DOMAIN hist :
                  (NextOnSameSolver(i, j) /\ IsSatisfiability(j)) => hist[j].result

(* C9: for p & ~p, [](p & ~p), <>(p & ~p) and (p & ~q) & (q & ~p),        *)
(* check_validity() returns False and check_satisfiability() called        *)
(* afterwards on the same solver returns False.                            *)
C9_UnsatisfiableScenarios ==
    \A i \in DOMAIN hist :
        (IsValidity(i) /\ Fresh(i) /\ hist[i].formula \in UnsatisfiableFormulas) =>
            /\ ~hist[i].result
            /\ \A j \in DOMAIN hist :
                  (NextOnSameSolver(i, j) /\ IsSatisfiability(j)) => ~hist[j].result

(* C10: determinism: two decision runs of the same entry point on the same *)
(* formula with fresh solvers return the same answer, whatever order the   *)
(* universal rule enumerates accessibility[w] in.                          *)
C10_Determinism ==
    \A i, j \in DOMAIN hist :
        (/\ Fresh(i) /\ Fresh(j)
         /\ hist[i].method = hist[j].method
         /\ hist[i].formula = hist[j].formula) => hist[i].result = hist[j].result

(* C11: each decision call owns its store, proof tree and branch set: a    *)
(* call starts from a store holding only the root world with no edges and  *)
(* from an empty proof tree, and the same call repeated on one solver      *)
(* returns the boolean the first call on that solver returned.             *)
C11_CallOwnsStore ==
    /\ (pc = "solve" /\ iteration = 0) =>
            /\ accessibility = (Root :> {})
            /\ tree = <<>>
            /\ node_count = 0
    /\ \A i, j \in DOMAIN hist :
            (/\ Fresh(i) /\ NextOnSameSolver(i, j)
             /\ hist[j].method = hist[i].method) => hist[j].result = hist[i].result

-----------------------------------------------------------------------------
(* The lineage of an invocation of expand_branch: the nodes of self.tree   *)
(* from its parent_id up to the root of the pass.                          *)

PrefixesOf(branch) == {branch[i][2] : i \in DOMAIN branch}

(* the prefixes on the labels of node parent_id and of its ancestors *)
RECURSIVE LineagePrefixes(_)
LineagePrefixes(parent_id) ==
    IF parent_id = NoParent THEN {}
    ELSE PrefixesOf(tree[parent_id[1] + 1].label)
            \cup LineagePrefixes(tree[parent_id[1] + 1].parent)

(* the invocation at the head of the work list fires a universal rule:     *)
(* F-Diamond in the second loop, or T-Box in the third                     *)
UniversalFires ==
    /\ Entered
    /\ f_box_formulas(Head(work).branch) = {}
    /\ \/ OtherKind = "nu"
       \/ /\ OtherKind = "none"
          /\ t_box_scan(Head(work).branch, 1,
                        other_scan(Head(work).branch, 1, accessibility).accessibility).index # 0

(* the first pass of the first call on a solver: the store started empty   *)
(* and the tree holds the whole lineage of every invocation                *)
FirstPass == calls = 1 /\ iteration = 0

(* C12: sibling isolation: a universal rule fired on a branch puts SPFs    *)
(* only at worlds that occur on that branch or on its ancestors, that is   *)
(* at worlds a delta rule created on the branch's own lineage, never at a  *)
(* world created on a sibling alternative.                                 *)
C12_SiblingIsolation ==
    [][(UniversalFires /\ FirstPass) =>
            PrefixesOf(Head(work').branch) \subseteq
                PrefixesOf(Head(work).branch) \cup LineagePrefixes(Head(work).parent_id)]_vars

-----------------------------------------------------------------------------
(* The branches the solver holds: self.branches, the branches returned to  *)
(* expand() so far, and the branches of the pending invocations.           *)
HeldBranches ==
    {branches[k] : k \in DOMAIN branches}
        \cup {new_branches[k] : k \in DOMAIN new_branches}
        \cup {work[k].branch : k \in DOMAIN work}

(* the branch has <T, w, p> and <F, w, p> for one world w and one atom p *)
AtomClash(branch) ==
    \E i, j \in DOMAIN branch :
        /\ IsAtom(branch[i][3]) /\ branch[i][3] = branch[j][3]
        /\ branch[i][2] = branch[j][2]
        /\ branch[i][1] /\ ~branch[j][1]

(* the branch has a T-atom and an F-atom of one name at different worlds *)
CrossWorldAtoms(branch) ==
    \E i, j \in DOMAIN branch :
        /\ IsAtom(branch[i][3]) /\ branch[i][3] = branch[j][3]
        /\ branch[i][2] # branch[j][2]
        /\ branch[i][1] /\ ~branch[j][1]

(* the branch has one non-atomic formula with both signs at one world *)
SignedPair(branch) ==
    \E i, j \in DOMAIN branch :
        /\ ~IsAtom(branch[i][3]) /\ branch[i][3] = branch[j][3]
        /\ branch[i][2] = branch[j][2]
        /\ branch[i][1] /\ ~branch[j][1]

(* C13: is_closed(branch) is True if and only if the branch has <T, w, p>  *)
(* and <F, w, p> for some world w and atom p: atoms of opposite sign at    *)
(* different worlds, and non-atomic formulas of opposite sign at one       *)
(* world, do not close it.                                                 *)
C13_ClosedIffAtomClash ==
    \A branch \in HeldBranches : is_closed(branch, accessibility) <=> AtomClash(branch)

(* C13: solve() is judging a set of branches one of which is closed and    *)
(* another of which is open although it has a T-atom and an F-atom of one  *)
(* name at different worlds.                                               *)
C13_Witness ==
    /\ pc = "finish"
    /\ \E k \in DOMAIN branches : is_closed(branches[k], accessibility)
    /\ \E k \in DOMAIN branches :
            CrossWorldAtoms(branches[k]) /\ ~is_closed(branches[k], accessibility)

(* C14: double negation: the answer of an entry point on a fresh solver    *)
(* for phi equals its answer on a fresh solver for Not(Not(phi)).          *)
C14_DoubleNegation ==
    \A i, j \in DOMAIN hist :
        (/\ Fresh(i) /\ Fresh(j)
         /\ hist[i].method = hist[j].method
         /\ hist[j].formula = Not(Not(hist[i].formula))) => hist[i].result = hist[j].result

(* C15: modal De Morgan: the answer of an entry point on a fresh solver    *)
(* for Not(Box(phi)) equals its answer for Diamond(Not(phi)), and its      *)
(* answer for Not(Diamond(phi)) equals its answer for Box(Not(phi)).       *)
C15_ModalDeMorgan ==
    \A i, j \in DOMAIN hist :
        (/\ Fresh(i) /\ Fresh(j)
         /\ hist[i].method = hist[j].method
         /\ hist[j].formula \in DeMorganPartner(hist[i].formula)) =>
            hist[i].result = hist[j].result

(* C16: a timeout aborts the whole decision: once run_with_timeout has     *)
(* reported the timed-out outcome to the caller, the worker changes the    *)
(* solver's branches, proof tree and accessibility store no more.          *)
C16_TimeoutAborts ==
    [][caller = "timed_out" => UNCHANGED <<branches, tree, accessibility>>]_vars

-----------------------------------------------------------------------------
(* The index, counted from 1, of the SPF the invocation at the head of the *)
(* work list fires a rule on: the first F-Box formula, else the first      *)
(* formula the second loop expands, else the first T-Box formula that has  *)
(* a successor; 0 when the invocation returns the branch as it is.         *)
FiredIndex ==
    LET branch == Head(work).branch
        scan == other_scan(branch, 1, accessibility)
    IN  IF f_box_formulas(branch) # {} THEN Min(f_box_formulas(branch))
        ELSE IF scan.index # 0 THEN scan.index
        ELSE t_box_scan(branch, 1, scan.accessibility).index

ExpansionFires == Entered /\ FiredIndex # 0

(* the child branches an expansion step has put at the head of the work    *)
(* list                                                                    *)
ChildBranches ==
    {work'[k].branch : k \in 1..(Len(work') - Len(work) + 1)}

(* C17: expanding an SPF replaces only that SPF: every child branch of an  *)
(* expansion step holds every SPF of the parent branch other than the one  *)
(* at the index the rule fired on; this includes the T-Or rule.            *)
C17_ReplacesOnlyFired ==
    [][ExpansionFires =>
            \A child \in ChildBranches :
                \A j \in DOMAIN Head(work).branch \ {FiredIndex} :
                    \E m \in DOMAIN child : child[m] = Head(work).branch[j]]_vars

-----------------------------------------------------------------------------
(* the labels of node parent_id of self.tree and of its ancestors: every   *)
(* state the branch of that node has been in during the pass               *)
RECURSIVE LineageLabels(_)
LineageLabels(parent_id) ==
    IF parent_id = NoParent THEN {}
    ELSE {tree[parent_id[1] + 1].label} \cup LineageLabels(tree[parent_id[1] + 1].parent)

(* w2 is f"{w}.{k}" for some k *)
IsSuccessor(w2, w) == Len(w2) = Len(w) + 1 /\ SubSeq(w2, 1, Len(w)) = w

(* the driver has stopped after the first call on a solver, and its first  *)
(* pass did all the expansion: the second pass changed no branch           *)
StoppedAfterOnePass ==
    /\ pc = "finish"
    /\ calls = 1
    /\ max_iterations = DefaultMaxIterations
    /\ iteration = 1

(* C18: universal rules are re-triggered by later world creation: when the *)
(* driver stops, for every universal SPF <T, w, Box(psi)> or               *)
(* <F, w, Diamond(psi)> that was ever on a branch and every successor w'   *)
(* of w that occurs on that branch, <T, w', psi> or <F, w', psi> has been  *)
(* added to the branch.                                                    *)
C18_UniversalRetriggered ==
    StoppedAfterOnePass =>
        \A n \in DOMAIN tree :
            tree[n].children = <<>> =>
                LET labels == LineageLabels(<<n - 1>>)
                IN  \A L \in labels : \A x \in DOMAIN L :
                        RuleKind(L[x]) = "nu" =>
                            \A w2 \in UNION {PrefixesOf(M) : M \in labels} :
                                IsSuccessor(w2, L[x][2]) =>
                                    \E M \in labels : \E y \in DOMAIN M :
                                        M[y] = <<L[x][1], w2, L[x][3][2]>>

-----------------------------------------------------------------------------
(* the kinds of rule that apply to the SPFs of a branch *)
KindsOn(branch) == {RuleKind(branch[j]) : j \in DOMAIN branch}

(* the kind of the rule the invocation at the head of the work list fires *)
FiredKind == RuleKind(Head(work).branch[FiredIndex])

(* C19: strict rule priority: the driver fires a delta rule only on a      *)
(* branch with no SPF for an alpha rule, a beta rule only on a branch with *)
(* no SPF for an alpha or delta rule, and a universal rule only on a       *)
(* branch with no SPF for an alpha, delta or beta rule.                    *)
C19_RulePriority ==
    [][ExpansionFires =>
            /\ FiredKind = "delta" => "alpha" \notin KindsOn(Head(work).branch)
            /\ FiredKind = "beta" => KindsOn(Head(work).branch) \cap {"alpha", "delta"} = {}
            /\ FiredKind = "nu" =>
                    KindsOn(Head(work).branch) \cap {"alpha", "delta", "beta"} = {}]_vars

(* C20: closure is checked before every selection step: the driver fires   *)
(* no rule on a branch that holds <T, w, p> and <F, w, p>.                 *)
C20_ClosureCheckedFirst ==
    [][ExpansionFires => ~is_closed(Head(work).branch, accessibility)]_vars

-----------------------------------------------------------------------------
(* The SPF the invocation at the head of the work list fires a rule on,    *)
(* and the prefixes in use: those on a branch the solver holds or has      *)
(* recorded in self.tree.                                                  *)
FiredSPF == Head(work).branch[FiredIndex]

UsedPrefixes ==
    UNION {PrefixesOf(branch) : branch \in HeldBranches}
        \cup UNION {PrefixesOf(tree[n].label) : n \in DOMAIN tree}

(* the step that runs the invocation at the head of the work list when it  *)
(* fires a rule                                                            *)
ExpansionStep == ExpansionFires /\ work' # work

(* C21: delta rule: firing <F, w, Box(phi)> or <T, w, Diamond(phi)> puts   *)
(* the single SPF <F, w', phi> resp. <T, w', phi> in the place of the      *)
(* fired one in the one child branch, with w' = w.k for                    *)
(* k = |successors(w)| + 1 before the call; it adds the edge w -> w' to    *)
(* the store; and w' was on no branch and in no edge before.               *)
C21_DeltaRule ==
    [][(ExpansionStep /\ FiredKind = "delta") =>
            LET w == FiredSPF[2]
                w2 == Append(w, Cardinality(Successors(accessibility, w)) + 1)
            IN  /\ ChildBranches =
                        {Replace(Head(work).branch, FiredIndex,
                                 << <<FiredSPF[1], w2, FiredSPF[3][2]>> >>)}
                /\ Successors(accessibility', w) = Successors(accessibility, w) \cup {w2}
                /\ w2 \notin UsedPrefixes
                /\ \A v \in DOMAIN accessibility : w2 \notin accessibility[v]]_vars

(* C21: a delta rule has fired for the second time at one world: the world *)
(* has two successors and the second is on a branch.                       *)
C21_Witness ==
    \E w \in DOMAIN accessibility :
        /\ Cardinality(accessibility[w]) >= 2
        /\ \E branch \in HeldBranches : Append(w, 2) \in PrefixesOf(branch)

(* the SPFs of a branch, as a set *)
SPFsOf(branch) == {branch[m] : m \in DOMAIN branch}

(* C22: universal rule: firing <T, w, Box(phi)> resp. <F, w, Diamond(phi)> *)
(* puts, in the place of the fired SPF in the one child branch, exactly    *)
(* one SPF <T, w', phi> resp. <F, w', phi> for each w' in successors(w);   *)
(* when successors(w) is empty apply_rule returns the empty list, the rule *)
(* does not fire, and an invocation that fires no rule returns the branch  *)
(* as it is.                                                               *)
C22_UniversalRule ==
    [][/\ (ExpansionStep /\ FiredKind = "nu") =>
            LET b == Head(work).branch
                i == FiredIndex
                succ == Successors(accessibility, FiredSPF[2])
                n == Cardinality(succ)
            IN  /\ succ # {}
                /\ \E child \in ChildBranches :
                        /\ ChildBranches = {child}
                        /\ Len(child) = Len(b) - 1 + n
                        /\ SubSeq(child, 1, i - 1) = SubSeq(b, 1, i - 1)
                        /\ SubSeq(child, i + n, Len(child)) = SubSeq(b, i + 1, Len(b))
                        /\ {child[m] : m \in i..(i + n - 1)} =
                                {<<FiredSPF[1], w2, FiredSPF[3][2]>> : w2 \in succ}
       /\ \A branch \in HeldBranches : \A m \in DOMAIN branch :
            (RuleKind(branch[m]) = "nu" /\ Successors(accessibility, branch[m][2]) = {}) =>
                apply_rule(accessibility, new_world_created,
                           branch[m][1], branch[m][2], branch[m][3], <<>>).result = <<>>
       /\ (Entered /\ ~ExpansionFires /\ work' # work) =>
                new_branches' = Append(new_branches, Head(work).branch)]_vars

(* C22: a universal SPF at a world with two successors has fired: it is on *)
(* a recorded branch, and a branch the solver holds has its instance at    *)
(* each of the successors.                                                 *)
C22_Witness ==
    \E n \in DOMAIN tree : \E x \in DOMAIN tree[n].label :
        LET spf == tree[n].label[x]
        IN  /\ RuleKind(spf) = "nu"
            /\ Cardinality(Successors(accessibility, spf[2])) >= 2
            /\ \E branch \in HeldBranches :
                    \A w2 \in Successors(accessibility, spf[2]) :
                        <<spf[1], w2, spf[3][2]>> \in SPFsOf(branch)

(* the output the alpha rules are to give for an SPF: <F, w, phi> for      *)
(* <T, w, Not(phi)>, <T, w, phi> for <F, w, Not(phi)>, <T, w, phi_i> for    *)
(* every conjunct of a T-And, <F, w, phi_i> for every disjunct of an F-Or, *)
(* <T, w, phi> and <F, w, psi> for <F, w, Implies(phi, psi)>               *)
AlphaOutput(spf) ==
    CASE IsNot(spf[3]) -> << <<~spf[1], spf[2], spf[3][2]>> >>
      [] IsAnd(spf[3]) -> [k \in DOMAIN spf[3][2] |-> <<TRUE, spf[2], spf[3][2][k]>>]
      [] IsOr(spf[3]) -> [k \in DOMAIN spf[3][2] |-> <<FALSE, spf[2], spf[3][2][k]>>]
      [] IsImplies(spf[3]) -> << <<TRUE, spf[2], spf[3][2][1]>>, <<FALSE, spf[2], spf[3][2][2]>> >>

(* C23: alpha rules: firing <T, w, Not(phi)>, <F, w, Not(phi)>,            *)
(* <T, w, And(..)>, <F, w, Or(..)> or <F, w, Implies(phi, psi)> gives one  *)
(* child branch, in which the one fragment of the rule stands in the place *)
(* of the fired SPF, and every SPF of the fragment has the prefix w.       *)
C23_AlphaRules ==
    [][(ExpansionStep /\ FiredKind = "alpha") =>
            LET b == Head(work).branch
                i == FiredIndex
            IN  /\ ChildBranches =
                        {SubSeq(b, 1, i - 1) \o AlphaOutput(FiredSPF) \o SubSeq(b, i + 1, Len(b))}
                /\ \A k \in DOMAIN AlphaOutput(FiredSPF) :
                        AlphaOutput(FiredSPF)[k][2] = FiredSPF[2]]_vars

(* C23: an alpha rule with two outputs has fired at a world other than the *)
(* root: a recorded branch has a T-And, F-Or or F-Implies at a prefix      *)
(* w # "1" and a branch the solver holds has its two components at w.      *)
C23_Witness ==
    \E n \in DOMAIN tree : \E x \in DOMAIN tree[n].label :
        LET spf == tree[n].label[x]
        IN  /\ RuleKind(spf) = "alpha"
            /\ ~IsNot(spf[3])
            /\ spf[2] # Root
            /\ \E branch \in HeldBranches :
                    \A k \in DOMAIN AlphaOutput(spf) : AlphaOutput(spf)[k] \in SPFsOf(branch)

(* the output the beta rules are to give for an SPF, one single-SPF        *)
(* fragment per component: <F, w, phi_i> for an F-And, <T, w, phi_i> for a *)
(* T-Or, <F, w, phi> and <T, w, psi> for <T, w, Implies(phi, psi)>         *)
BetaOutput(spf) ==
    CASE IsAnd(spf[3]) -> [k \in DOMAIN spf[3][2] |-> <<FALSE, spf[2], spf[3][2][k]>>]
      [] IsOr(spf[3]) -> [k \in DOMAIN spf[3][2] |-> <<TRUE, spf[2], spf[3][2][k]>>]
      [] IsImplies(spf[3]) -> << <<FALSE, spf[2], spf[3][2][1]>>, <<TRUE, spf[2], spf[3][2][2]>> >>

(* C24: beta rules: firing <F, w, And(..)>, <T, w, Or(..)> or              *)
(* <T, w, Implies(phi, psi)> forks the branch into exactly one child       *)
(* branch per component, in the order of the components, and the k-th      *)
(* child gets the single SPF of the k-th fragment and no other new SPF.    *)
C24_BetaRules ==
    [][(ExpansionStep /\ FiredKind = "beta") =>
            LET b == Head(work).branch
                out == BetaOutput(FiredSPF)
            IN  /\ Len(work') = Len(work) - 1 + Len(out)
                /\ \A k \in DOMAIN out :
                        /\ out[k] \in SPFsOf(work'[k].branch)
                        /\ SPFsOf(work'[k].branch) \subseteq SPFsOf(b) \cup {out[k]}
                        /\ Len(work'[k].branch) <= Len(b)]_vars

(* C24: a beta rule has forked a branch: a recorded branch with an SPF for *)
(* a beta rule has two children in self.tree.                              *)
C24_Witness ==
    \E n \in DOMAIN tree :
        /\ Len(tree[n].children) = 2
        /\ \E x \in DOMAIN tree[n].label : RuleKind(tree[n].label[x]) = "beta"

-----------------------------------------------------------------------------
(* The steps of the thread that runs a decision call.  The interpreter     *)
(* keeps scheduling a thread that can run, so a call that can take a step  *)
(* takes it.                                                               *)
Worker ==
    \/ SolveIterate
    \/ SolveExhausted
    \/ DepthGuard
    \/ ExpandFBox
    \/ ExpandAlpha
    \/ ExpandBeta
    \/ ExpandTDiamond
    \/ ExpandFDiamond
    \/ ExpandTBox
    \/ NoExpansion
    \/ SolveFixpoint
    \/ SolveAssign
    \/ Finish

(* solve() has left its loop by the break of the fixpoint test: the range  *)
(* of the loop was not exhausted                                           *)
LeftByFixpoint == iteration < max_iterations

(* where the call stands: in the loop header of solve, inside expand(),    *)
(* after the loop, returned                                                *)
Phase ==
    CASE pc = "solve" -> 0
      [] pc = "expand" -> 1
      [] pc = "finish" -> 2
      [] OTHER -> 3

(* a step of the call makes progress: the loop of solve moves on, or the   *)
(* call moves on inside one pass, or expand_branch records a node, or a    *)
(* pending expand_branch returns                                           *)
Advances ==
    \/ iteration' > iteration
    \/ /\ iteration' = iteration
       /\ Phase' > Phase
    \/ /\ iteration' = iteration
       /\ Phase' = Phase
       /\ node_count' > node_count
    \/ /\ iteration' = iteration
       /\ Phase' = Phase
       /\ node_count' = node_count
       /\ Len(work') < Len(work)

(* a call that has not returned can take a step, and every step it takes   *)
(* makes progress; the loop counter never passes max_iterations            *)
Terminates ==
    /\ [](pc # "idle" => ENABLED Worker)
    /\ [](pc # "idle" => iteration <= max_iterations)
    /\ [][pc # "idle" /\ caller' = caller => Advances]_vars

(* C25, as stated: every decision call terminates, and solve() leaves its  *)
(* loop through the fixpoint test, not by exhausting max_iterations.       *)
C25_TerminatesByFixpoint ==
    /\ [](pc = "finish" => LeftByFixpoint)
    /\ Terminates

(* C25, amended: every decision call terminates, and a call made with the  *)
(* default max_iterations leaves the loop of solve() through the fixpoint  *)
(* test.                                                                   *)
C25_TerminatesByFixpointDefault ==
    /\ [](pc = "finish" /\ max_iterations = DefaultMaxIterations => LeftByFixpoint)
    /\ Terminates

(* C25: a call with the default max_iterations on a formula that needs     *)
(* more than one pass of expand() has left the loop by the fixpoint test.  *)
C25_Witness ==
    /\ pc = "finish"
    /\ max_iterations = DefaultMaxIterations
    /\ iteration >= 2
    /\ LeftByFixpoint

-----------------------------------------------------------------------------
(* C26: the depth guard never fires: expand_branch is never entered with   *)
(* a depth above its limit.                                                *)
C26_DepthGuardNeverFires == Running => Head(work).depth <= DepthLimit

(* the last pass of the call was cut short: a limit stopped expansion and  *)
(* some branch the call answers from is not saturated                      *)
StoppedUnsaturated ==
    /\ pc = "finish"
    /\ ~LeftByFixpoint
    /\ \E k \in DOMAIN branches : ~Saturated(branches[k], accessibility)

(* C27: when a limit stops expansion before every branch is saturated, the *)
(* call reports an inconclusive outcome, not True or False.                *)
C27_LimitIsInconclusive ==
    StoppedUnsaturated => Returned(method, all_closed(branches, accessibility)) \notin BOOLEAN

-----------------------------------------------------------------------------
(* the immediate components of a formula *)
Components(f) ==
    CASE IsAtom(f) -> {}
      [] IsAnd(f) \/ IsOr(f) \/ IsImplies(f) -> {f[2][k] : k \in DOMAIN f[2]}
      [] OTHER -> {f[2]}

(* C28: bounded firing: a rule firing uses up the occurrence it fires on.   *)
(* Every child branch of an expansion step is made of SPFs of the parent    *)
(* at indices other than the fired one, kept in their order, and of the     *)
(* outputs of the rule, whose formulas are immediate components of the      *)
(* fired formula; so no occurrence has an alpha, beta or delta rule fired   *)
(* on it twice.  The outputs of one universal firing are at pairwise        *)
(* distinct successors of the world of the fired SPF, and the universal SPF *)
(* is used up as well, so it gives its output at most once per successor.   *)
C28_BoundedFiring ==
    [][ExpansionStep =>
            LET b == Head(work).branch
                i == FiredIndex
                pre == SubSeq(b, 1, i - 1)
                post == SubSeq(b, i + 1, Len(b))
            IN  \A child \in ChildBranches :
                    \E head \in {pre, <<>>} :
                        LET n == Len(child) - Len(head) - Len(post)
                            out == SubSeq(child, Len(head) + 1, Len(head) + n)
                        IN  /\ n >= 0
                            /\ child = head \o out \o post
                            /\ \A m \in 1..n : out[m][3] \in Components(FiredSPF[3])
                            /\ FiredKind = "nu" =>
                                    /\ \A m \in 1..n :
                                            out[m][2] \in Successors(accessibility, FiredSPF[2])
                                    /\ \A m1, m2 \in 1..n :
                                            out[m1][2] = out[m2][2] => m1 = m2]_vars

(* C28: a fired occurrence is gone for good: a recorded branch has an SPF   *)
(* for a rule that is neither on its recorded child nor on a child of that  *)
(* child.                                                                   *)
C28_Witness ==
    \E c, g \in DOMAIN tree :
        /\ tree[g].parent = <<c - 1>>
        /\ tree[c].parent # NoParent
        /\ LET n == tree[c].parent[1] + 1
           IN  \E x \in DOMAIN tree[n].label :
                    /\ RuleKind(tree[n].label[x]) # "literal"
                    /\ tree[n].label[x] \notin SPFsOf(tree[c].label)
                    /\ tree[n].label[x] \notin SPFsOf(tree[g].label)

-----------------------------------------------------------------------------
(* the largest of a finite non-empty set of numbers *)
Max(s) == CHOOSE x \in s : \A y \in s : y <= x

(* modal depth: the deepest nesting of Box and Diamond in a formula *)
RECURSIVE modal_depth(_)
modal_depth(f) ==
    CASE IsAtom(f) -> 0
      [] IsNot(f) -> modal_depth(f[2])
      [] IsBox(f) \/ IsDiamond(f) -> 1 + modal_depth(f[2])
      [] OTHER -> Max({modal_depth(f[2][k]) : k \in DOMAIN f[2]})

(* C29: prefix length is bounded by modal depth: during a decision call on  *)
(* phi every SPF <s, w, psi> on every branch has                           *)
(* (number of components of w - 1) + modal_depth(psi) <= modal_depth(phi).  *)
C29_PrefixBoundedByModalDepth ==
    pc # "idle" =>
        \A branch \in HeldBranches : \A m \in DOMAIN branch :
            (Len(branch[m][2]) - 1) + modal_depth(branch[m][3]) <= modal_depth(formula)

(* C29: a call on a formula of modal depth two or more holds a branch with  *)
(* an SPF whose prefix has modal_depth(phi) + 1 components.                 *)
C29_Witness ==
    /\ pc # "idle"
    /\ modal_depth(formula) >= 2
    /\ \E branch \in HeldBranches : \E m \in DOMAIN branch :
            Len(branch[m][2]) = modal_depth(formula) + 1

-----------------------------------------------------------------------------
(* the edges of the accessibility store *)
Edges(acc) == UNION {{<<w, w2>> : w2 \in acc[w]} : w \in DOMAIN acc}

(* C30: the accessibility relation is append-only and changed only by the   *)
(* delta rules: a step on one solver that fires a delta rule at w adds      *)
(* exactly one edge w -> w' that was not there, and every other step        *)
(* leaves the set of edges as it is.                                        *)
C30_EdgesAppendOnly ==
    [][solver' = solver =>
            IF ExpansionStep /\ FiredKind = "delta"
            THEN \E w2 \in Successors(accessibility', FiredSPF[2]) :
                    /\ <<FiredSPF[2], w2>> \notin Edges(accessibility)
                    /\ Edges(accessibility') = Edges(accessibility) \cup {<<FiredSPF[2], w2>>}
            ELSE Edges(accessibility') = Edges(accessibility)]_vars

(* C30: the store has edges from two worlds, and a universal rule has been  *)
(* fired with the store as it is: a branch the solver holds has the output  *)
(* of a recorded universal SPF at a successor.                              *)
C30_Witness ==
    /\ Cardinality({e[1] : e \in Edges(accessibility)}) >= 2
    /\ \E n \in DOMAIN tree : \E x \in DOMAIN tree[n].label :
            LET spf == tree[n].label[x]
            IN  /\ RuleKind(spf) = "nu"
                /\ \E branch \in HeldBranches :
                        \E w2 \in Successors(accessibility, spf[2]) :
                            <<spf[1], w2, spf[3][2]>> \in SPFsOf(branch)

-----------------------------------------------------------------------------
(* the branches of the solver: self.branches, and during a pass of expand() *)
(* the branches returned so far and those of the pending invocations        *)
SolverBranches ==
    {branches[k] : k \in DOMAIN branches}
        \cup (IF pc = "expand"
              THEN {new_branches[k] : k \in DOMAIN new_branches}
                        \cup {work[k].branch : k \in DOMAIN work}
              ELSE {})

(* C31: the prefix of every SPF on every branch appears in the              *)
(* accessibility store: it is the root "1" or the target of an edge of the  *)
(* store.                                                                   *)
C31_PrefixesInStore ==
    \A branch \in SolverBranches : \A w \in PrefixesOf(branch) :
        \/ w = Root
        \/ \E e \in Edges(accessibility) : e[2] = w

(* C31: a branch of the solver has an SPF at a world two edges from the     *)
(* root.                                                                    *)
C31_Witness ==
    \E branch \in SolverBranches : \E w \in PrefixesOf(branch) :
        /\ Len(w) = 3
        /\ <<SubSeq(w, 1, 2), w>> \in Edges(accessibility)

-----------------------------------------------------------------------------
(* truth of f at world w of the Kripke structure with worlds W, edges R    *)
(* and the atoms V[v] true at world v                                      *)
RECURSIVE TrueAt(_, _, _, _, _)
TrueAt(f, w, W, R, V) ==
    CASE IsAtom(f) -> f[2] \in V[w]
      [] IsNot(f) -> ~TrueAt(f[2], w, W, R, V)
      [] IsAnd(f) -> \A i \in DOMAIN f[2] : TrueAt(f[2][i], w, W, R, V)
      [] IsOr(f) -> \E i \in DOMAIN f[2] : TrueAt(f[2][i], w, W, R, V)
      [] IsImplies(f) -> TrueAt(f[2][1], w, W, R, V) => TrueAt(f[2][2], w, W, R, V)
      [] IsBox(f) -> \A v \in W : <<w, v>> \in R => TrueAt(f[2], v, W, R, V)
      [] IsDiamond(f) -> \E v \in W : <<w, v>> \in R /\ TrueAt(f[2], v, W, R, V)

(* the worlds save_accessibility_graph draws: the keys of the store and    *)
(* the members of its sets                                                 *)
StoreWorlds(acc) == DOMAIN acc \cup UNION {acc[w] : w \in DOMAIN acc}

(* the structure read from a branch: its worlds are the prefixes on the    *)
(* branch and the worlds of the store, its edges those of the store, and   *)
(* an atom is true at w when <T, w, p> is on the branch                    *)
BranchWorlds(branch, acc) == PrefixesOf(branch) \cup StoreWorlds(acc)

BranchValuation(branch, acc) ==
    [w \in PrefixesOf(branch) \cup StoreWorlds(acc) |->
        {branch[m][3][2] : m \in {x \in DOMAIN branch :
                                    /\ branch[x][1]
                                    /\ branch[x][2] = w
                                    /\ IsAtom(branch[x][3])}}]

SeedFalseIn(branch, acc) ==
    ~TrueAt(formula, Root, BranchWorlds(branch, acc), Edges(acc), BranchValuation(branch, acc))

(* C32: when a decision run, the first on its solver and with the default  *)
(* max_iterations, ends with an open branch, the formula is false at world *)
(* "1" of the Kripke structure read from that branch.                      *)
C32_OpenBranchIsCountermodel ==
    (pc = "finish" /\ calls = 1 /\ max_iterations = DefaultMaxIterations) =>
        \A k \in DOMAIN branches :
            ~is_closed(branches[k], accessibility) => SeedFalseIn(branches[k], accessibility)

-----------------------------------------------------------------------------
(* the recorded nodes without a parent *)
TreeRoots == {n \in DOMAIN tree : tree[n].parent = NoParent}

(* C33: the proof structure recorded during one decision call is a single  *)
(* tree rooted at the seed node: when the first call on a solver has left  *)
(* the loop of solve by the fixpoint test, exactly one node of self.tree   *)
(* has no parent, and it is the node of the seed branch.                   *)
C33_SingleTree ==
    (pc = "finish" /\ calls = 1 /\ LeftByFixpoint) =>
        /\ Cardinality(TreeRoots) = 1
        /\ \A n \in TreeRoots : tree[n].label = <<Seed(formula)>>

-----------------------------------------------------------------------------
(* The parser on its own: solve_formula applied to a text.                 *)

Alphabet == {"p", "q", "~", "&", "|", "-", ">", "(", ")", "[", "]", "<", " ", "#"}

MaxTextLen == 3

ShortTexts == UNION {[1..n -> Alphabet] : n \in 0..MaxTextLen}

(* a|b&c, a&b|c, a->b->c, a&b&c, a->b|c *)
PrecedenceTexts ==
    { <<"a", "|", "b", "&", "c">>,
      <<"a", "&", "b", "|", "c">>,
      <<"a", "-", ">", "b", "-", ">", "c">>,
      <<"a", "&", "b", "&", "c">>,
      <<"a", "-", ">", "b", "|", "c">> }

(* further inputs: the two characters the parser rewrites, an upper-case   *)
(* letter, a double negation, unbalanced parentheses around a formula      *)
OtherTexts ==
    { <<WhiteSquare, "p">>, <<WhiteDiamond, "p">>, <<"P">>, <<"~", "~", "p">>,
      <<"(", "p", "&", "q">>, <<"(", "p", "&", "q", ")", ")">>, <<"(", "p", ")", "q">> }

(* opening parentheses nested deeper than the recursion limit allows, and  *)
(* none of them closed: six calls are made for each                        *)
UnclosedChain == [k \in 1..(RecursionLimit \div 6 + 1) |-> "("]

Texts == ShortTexts \cup PrecedenceTexts \cup OtherTexts \cup {UnclosedChain}

ParserInit ==
    /\ formula = Atom("p")
    /\ SolverIdle
    /\ AppIdle

(* solve_formula(formula_str) is called and calls custom_parse_formula *)
solve_formula ==
    /\ ~InParser
    /\ parsed = None
    /\ report = None
    /\ \E formula_str \in Texts : custom_parse_formula(formula_str)
    /\ UNCHANGED <<solver_vars, report, solutions, solutions_to_remove, selected_index,
                   current_formula, editing>>

(* solve_formula returns *)
solve_formula_end ==
    /\ ~InParser
    /\ parsed # None
    /\ report = None
    /\ \E is_valid, is_satisfiable \in BOOLEAN :
            report' = Some(solve_formula_returns(parsed[1], is_valid, is_satisfiable))
    /\ UNCHANGED <<solver_vars, text, parsed, frames, ret, solutions, solutions_to_remove,
                   selected_index, current_formula, editing>>

ParserStep ==
    \/ parse_atom
    \/ parse_not
    \/ parse_modal
    \/ parse_or
    \/ parse_and
    \/ parse_implies
    \/ parse_parentheses
    \/ custom_parse_formula_end

ParserNext == solve_formula \/ ParserStep \/ solve_formula_end

ParserSpec == ParserInit /\ [][ParserNext]_vars

(* C34: parser precedence: & binds tighter than |, | tighter than ->, and  *)
(* -> is right-associative: a|b&c parses as Or(a, And(b, c)), a&b|c as     *)
(* Or(And(a, b), c), and a->b->c as Implies(a, Implies(b, c)).             *)
C34_ParserPrecedence ==
    parsed # None =>
        LET a == Atom("a")
            b == Atom("b")
            c == Atom("c")
            Is(f) == parsed[1] = Formula(f)
        IN  /\ text = <<"a", "|", "b", "&", "c">> => Is(Or(<<a, And(<<b, c>>)>>))
            /\ text = <<"a", "&", "b", "|", "c">> => Is(Or(<<And(<<a, b>>), c>>))
            /\ text = <<"a", "-", ">", "b", "-", ">", "c">> => Is(Implies(a, Implies(b, c)))

(* the characters the parse functions know *)
Vocabulary == Letters \cup {"~", "&", "|", "-", ">", "(", ")", "[", "]", "<"}

Count(s, c) == Cardinality({k \in DOMAIN s : s[k] = c})

(* s is a formula of the grammar of the input language *)
RECURSIVE WellFormed(_)
WellFormed(s) ==
    LET n == Len(s)
        Before(k) == SubSeq(s, 1, k - 1)
        From(k) == SubSeq(s, k, n)
    IN  \/ n = 1 /\ isalpha(s[1])
        \/ n > 1 /\ s[1] = "~" /\ WellFormed(From(2))
        \/ n > 2 /\ s[1] = "[" /\ s[2] = "]" /\ WellFormed(From(3))
        \/ n > 2 /\ s[1] = "<" /\ s[2] = ">" /\ WellFormed(From(3))
        \/ n > 2 /\ s[1] = "(" /\ s[n] = ")" /\ WellFormed(SubSeq(s, 2, n - 1))
        \/ \E k \in 2..(n - 1) :
                /\ s[k] \in {"&", "|"}
                /\ WellFormed(Before(k))
                /\ WellFormed(From(k + 1))
        \/ \E k \in 2..(n - 2) :
                /\ s[k] = "-"
                /\ s[k + 1] = ">"
                /\ WellFormed(Before(k))
                /\ WellFormed(From(k + 2))

(* the four kinds of erroneous input, read off the input after the spaces  *)
(* are removed and the two special characters rewritten                    *)
EmptyInput(str) == Cleaned(str) = <<>>

UnknownCharacter(str) ==
    LET s == Cleaned(str)
    IN  \E k \in DOMAIN s : s[k] \notin Vocabulary

MissingClosingParenthesis(str) ==
    LET s == Cleaned(str)
    IN  Count(s, "(") > Count(s, ")")

(* a complete formula, and after it text that does not go on with a binary *)
(* connective                                                              *)
TrailingJunk(str) ==
    LET s == Cleaned(str)
    IN  \E k \in 1..(Len(s) - 1) :
            /\ s[k + 1] \notin {"&", "|", "-"}
            /\ WellFormed(SubSeq(s, 1, k))

ErroneousInput(str) ==
    \/ EmptyInput(str)
    \/ UnknownCharacter(str)
    \/ MissingClosingParenthesis(str)
    \/ TrailingJunk(str)

(* C35: for an input with an unknown character, a missing closing          *)
(* parenthesis, trailing junk after a complete formula, or for the empty   *)
(* input, custom_parse_formula raises ValueError and gives no formula, and *)
(* solve_formula reports "INVALID" with no validity and no satisfiability  *)
(* boolean.                                                                *)
C35_ParseErrorsAreInvalid ==
    ErroneousInput(text) =>
        /\ parsed # None => parsed[1] = Raises("ValueError")
        /\ report # None => report[1] = <<None, None, <<"INVALID">> >>

(* the same for the inputs the parse functions read within the recursion   *)
(* limit                                                                   *)
ParseErrorsAreInvalidWithinLimit ==
    (ErroneousInput(text) /\ 6 * Count(Cleaned(text), "(") + 2 <= RecursionLimit) =>
        /\ parsed # None => parsed[1] = Raises("ValueError")
        /\ report # None => report[1] = <<None, None, <<"INVALID">> >>

-----------------------------------------------------------------------------
(* the decision calls that were the first call on their solver, made with  *)
(* the default max_iterations                                              *)
FreshCalls == {k \in DOMAIN hist : hist[k].first /\ hist[k].max_iterations = DefaultMaxIterations}

(* C36: on fresh solvers the two entry points are exact complements: for   *)
(* every formula phi, Tableaux(phi).check_validity() is the negation of    *)
(* Tableaux(phi).check_satisfiability().                                   *)
C36_EntryPointsComplement ==
    \A i, j \in FreshCalls :
        (/\ hist[i].formula = hist[j].formula
         /\ hist[i].tree = hist[j].tree
         /\ hist[i].method = "check_validity"
         /\ hist[j].method = "check_satisfiability")
            => hist[i].result = ~hist[j].result

C36_Witness ==
    \E i, j \in FreshCalls :
        /\ hist[i].formula = hist[j].formula
        /\ hist[i].tree = hist[j].tree
        /\ hist[i].method = "check_validity"
        /\ hist[j].method = "check_satisfiability"
        /\ hist[i].solver # hist[j].solver
        /\ hist[i].result

-----------------------------------------------------------------------------
(* g is f or a subformula of f *)
RECURSIVE IsSubformula(_, _)
IsSubformula(g, f) ==
    IF g = f THEN TRUE
    ELSE CASE IsAtom(f) -> FALSE
           [] IsAnd(f) \/ IsOr(f) \/ IsImplies(f) ->
                IsSubformula(g, f[2][1]) \/ IsSubformula(g, f[2][2])
           [] OTHER -> IsSubformula(g, f[2])

(* the number of atoms and connectives of a formula *)
RECURSIVE Size(_)
Size(f) ==
    CASE IsAtom(f) -> 1
      [] IsAnd(f) \/ IsOr(f) \/ IsImplies(f) -> 1 + Size(f[2][1]) + Size(f[2][2])
      [] OTHER -> 1 + Size(f[2])

(* the total size of the formulas on a branch that are no atoms *)
RECURSIVE NonLiteralSize(_)
NonLiteralSize(branch) ==
    IF branch = <<>> THEN 0
    ELSE (IF IsAtom(Head(branch)[3]) THEN 0 ELSE Size(Head(branch)[3]))
            + NonLiteralSize(Tail(branch))

(* every formula on every branch is a subformula of the formula of the call *)
SubformulaProperty ==
    pc # "idle" =>
        \A branch \in SolverBranches : \A m \in DOMAIN branch :
            IsSubformula(branch[m][3], formula)

(* a rule firing gives child branches that are smaller, or the branch as it was *)
FiringDecreases ==
    ExpansionStep =>
        \A child \in ChildBranches :
            \/ NonLiteralSize(child) < NonLiteralSize(Head(work).branch)
            \/ child = Head(work).branch

(* the number of non-literal SPFs of a branch whose formula has size n *)
CountOfSize(branch, n) ==
    Cardinality({m \in DOMAIN branch : ~IsAtom(branch[m][3]) /\ Size(branch[m][3]) = n})

(* child is below parent in the multiset order of the sizes of their       *)
(* non-literal formulas: it has fewer formulas of some size and no more of  *)
(* any larger size                                                          *)
MultisetSmaller(child, parent) ==
    \E s \in 1..Size(formula) :
        /\ CountOfSize(child, s) < CountOfSize(parent, s)
        /\ \A n \in (s + 1)..Size(formula) : CountOfSize(child, n) <= CountOfSize(parent, n)

FiringDecreasesMultiset ==
    ExpansionStep =>
        \A child \in ChildBranches :
            \/ MultisetSmaller(child, Head(work).branch)
            \/ child = Head(work).branch

(* C37 as the code has it: the subformula property holds, and each rule    *)
(* firing makes the non-literal formulas of the branch smaller in the      *)
(* multiset order of their sizes (the fired formula goes and only smaller  *)
(* ones come), or leaves the branch unchanged.                             *)
C37_SubformulaPropertyMultiset == []SubformulaProperty /\ [][FiringDecreasesMultiset]_vars

(* C37: subformula property: in every reachable state of a decision call    *)
(* on phi the formula of every SPF on every branch is phi or a subformula   *)
(* of phi, and each rule firing strictly decreases the total size of the    *)
(* non-literal formulas on the branch or leaves the branch unchanged.       *)
C37_SubformulaProperty == []SubformulaProperty /\ [][FiringDecreases]_vars

(* C37: a universal rule has fired at a world with two successors and has  *)
(* put its non-literal body on the branch once for each                    *)
C37_Witness ==
    /\ pc = "expand"
    /\ \E branch \in SolverBranches : \E m1, m2 \in DOMAIN branch :
            /\ branch[m1][2] # branch[m2][2]
            /\ branch[m1][1] = branch[m2][1]
            /\ branch[m1][3] = branch[m2][3]
            /\ ~IsAtom(branch[m1][3])
            /\ \E n \in DOMAIN tree : \E k \in DOMAIN tree[n].label :
                    tree[n].label[k][3] = Box(branch[m1][3])

-----------------------------------------------------------------------------
(* What run_with_timeout gives its caller, lines 31-36, and how: by return *)
(* or by raise.  After the join the thread is alive exactly when the join  *)
(* timed out; then "return TimeoutError(...)" hands over the exception     *)
(* object.  Otherwise result[0] holds what func returned (the entry points *)
(* raise nothing), and "return result[0]" hands it over.                   *)
run_with_timeout ==
    IF caller = "timed_out"
    THEN [how |-> "return", value |-> "TimeoutError"]
    ELSE [how |-> "return", value |-> Returned(method, all_closed(branches, accessibility))]

(* run_with_timeout is about to give its caller something: the join has    *)
(* timed out, or the thread has ended with the answer of the call          *)
Handing == caller = "timed_out" \/ (caller = "join" /\ pc = "finish")

(* C38: run_with_timeout hands the caller only func's own outcome or an    *)
(* exception: the value of func is returned when func returns in time, a   *)
(* TimeoutError is raised when the timeout elapses, and no exception       *)
(* object is ever returned as an ordinary value.                           *)
C38_TimeoutIsRaised ==
    Handing =>
        /\ caller = "timed_out" => run_with_timeout = [how |-> "raise", value |-> "TimeoutError"]
        /\ caller = "join" =>
                run_with_timeout = [how |-> "return",
                                    value |-> Returned(method, all_closed(branches, accessibility))]
        /\ run_with_timeout.how = "return" => run_with_timeout.value \in BOOLEAN

-----------------------------------------------------------------------------
(* The front end on its own: a session of Solve, select-solution,          *)
(* edit-text and delete-solution interactions.                             *)

AppInit ==
    /\ formula = Atom("p")
    /\ SolverIdle
    /\ AppIdle

AppNext ==
    \/ select_solution
    \/ EditText
    \/ DeleteSolution
    \/ Solve
    \/ ParserStep
    \/ Solved

AppSpec == AppInit /\ [][AppNext]_vars

(* selected_index is None or a valid index into solutions, and None when   *)
(* solutions is empty                                                      *)
SelectionValid ==
    /\ selected_index = None \/ selected_index[1] \in 0..(Len(solutions) - 1)
    /\ solutions = <<>> => selected_index = None

(* the step deletes the entry at an index other than the selected one *)
DeletesOther ==
    /\ solutions_to_remove' # <<>>
    /\ selected_index # Some(solutions_to_remove'[1])

(* selected_index points after the step at the solution it pointed at      *)
(* before, one place down when the deleted entry was before it             *)
SelectionKept ==
    IF selected_index = None THEN selected_index' = None
    ELSE /\ selected_index' # None
         /\ selected_index'[1] = IF solutions_to_remove'[1] < selected_index[1]
                                 THEN selected_index[1] - 1 ELSE selected_index[1]
         /\ solutions'[selected_index'[1] + 1] = solutions[selected_index[1] + 1]

(* with no entry selected, the delete selects the last remaining entry *)
LastSelected ==
    selected_index' = IF solutions' = <<>> THEN None ELSE Some(Len(solutions') - 1)

(* C39 as the code has it: the selection is always valid; deleting an      *)
(* entry other than the selected one leaves selected_index pointing at the *)
(* same solution when an entry is selected, and when none is selected it   *)
(* selects the last remaining entry.                                       *)
C39_SelectionKeptWhenSelected ==
    /\ []SelectionValid
    /\ [][DeletesOther => IF selected_index # None THEN SelectionKept ELSE LastSelected]_vars

(* C39: solution-history invariant of the UI state: after any sequence of  *)
(* Solve, select-solution, edit-text and delete-solution actions,          *)
(* selected_index is None or a valid index into solutions, it is None      *)
(* whenever solutions is empty, and deleting an entry other than the       *)
(* selected one leaves selected_index pointing at the same solution as     *)
(* before.                                                                 *)
C39_SelectionInvariant ==
    /\ []SelectionValid
    /\ [][DeletesOther => SelectionKept]_vars

(* C39: the first of three entries has been deleted while the second was   *)
(* selected: a delete of the selected entry, or with none selected, would  *)
(* have set editing                                                        *)
C39_Witness ==
    /\ solutions_to_remove = <<0>>
    /\ Len(solutions) = 2
    /\ selected_index = Some(0)
    /\ ~editing

====
